---------------------------- MODULE Spec2Model ----------------------------
(***************************************************************************)
(* Height-field water simulation of webgl2-water: the Water class          *)
(* (ping-pong render targets and the four GPGPU passes), and the           *)
(* application loop of main.ts that drives it.                             *)
(*                                                                         *)
(* Numbers are fixed point.  Lengths, coordinates, radii and the normal    *)
(* channels are in thousandths (ONE = 1.0); heights and velocities (the    *)
(* r and g channels) are in ten-thousandths (HONE = 1.0).  Addition is     *)
(* exact, products and quotients round to nearest (RDiv), cos and exp are  *)
(* tabulated in eighths of their argument.  NaN is one reserved value that *)
(* every arithmetic operation propagates.                                  *)
(***************************************************************************)
EXTENDS Integers, Sequences, FiniteSets, TLC

\* ------------------------------------------------------------------ bounds
\* Texels per side of the height field (256 in the program).
GridN == 3
\* Number of Water method calls a behaviour of Spec makes.
MaxCalls == 3

\* ------------------------------------------------------------------- units
ONE == 10 ^ 3
HONE == 10 ^ 4
NaN == -(2 ^ 30)

IsNaN(x) == x = NaN
Min(a, b) == IF a < b THEN a ELSE b
Max(a, b) == IF a > b THEN a ELSE b
Abs(a) == IF a < 0 THEN -a ELSE a

\* a / b rounded to nearest, halves away from zero; b # 0.
RDiv(a, b) ==
  LET n == IF b < 0 THEN -a ELSE a
      d == Abs(b)
  IN  IF n >= 0 THEN (2 * n + d) \div (2 * d) ELSE -((2 * (-n) + d) \div (2 * d))

RECURSIVE SqrtSearch(_, _, _)
SqrtSearch(n, lo, hi) ==
  IF lo >= hi THEN lo
  ELSE LET mid == (lo + hi + 1) \div 2
       IN  IF mid * mid <= n THEN SqrtSearch(n, mid, hi) ELSE SqrtSearch(n, lo, mid - 1)

\* floor of the square root of n >= 0
Sqrt(n) == IF n < 2 ^ 22 THEN SqrtSearch(n, 0, 2 ^ 11 - 1) ELSE SqrtSearch(n, 0, 46340)

\* NaN-propagating arithmetic of the shaders
FAdd(a, b) == IF IsNaN(a) \/ IsNaN(b) THEN NaN ELSE a + b
FSub(a, b) == IF IsNaN(a) \/ IsNaN(b) THEN NaN ELSE a - b
\* a * num / den
FScale(a, num, den) == IF IsNaN(a) THEN NaN ELSE RDiv(a * num, den)

\* ---------------------------------------------------------------- textures
Idx == 0 .. (GridN - 1)
Texels == Idx \X Idx
\* Texture coordinates are counted in half texels: texel i has its centre at
\* 2i+1 of CoordUnits, which is the `coord` varying of the full-screen quad.
CoordUnits == 2 * GridN
Coord(i) == 2 * i + 1
\* coord as a length in thousandths of the field
CoordMilli(c) == (c * ONE) \div CoordUnits

ZeroTexel == [r |-> 0, g |-> 0, b |-> 0, a |-> 0]
ZeroField == [t \in Texels |-> ZeroTexel]

\* the height field created with wrapS = wrapT = RepeatWrapping
wrapModeRepeat == "RepeatWrapping"

\* WebGLRenderTarget options of the height field: no wrapS/wrapT is given, so
\* the texture keeps three.js's default wrapping.
wrapMode == "ClampToEdgeWrapping"

WrapCoord(c) ==
  IF wrapMode = "RepeatWrapping" THEN c % CoordUnits
  ELSE Max(1, Min(CoordUnits - 1, c))

\* One channel blended as LinearFilter does between two texels of equal weight.
Blend(x, y) == IF IsNaN(x) \/ IsNaN(y) THEN NaN ELSE RDiv(x + y, 2)

\* texel index left of / at an even (texel border) or odd (texel centre) coordinate
LoIdx(c) == IF c % 2 = 1 THEN (c - 1) \div 2 ELSE ((c - 2) \div 2) % GridN
HiIdx(c) == IF c % 2 = 1 THEN (c - 1) \div 2 ELSE (c \div 2) % GridN

\* texture2D(textureMap, (cx, cy)) with LinearFilter: at a texel centre the
\* texel itself, on a border the mean of the texels it separates.
texture2D(tex, cx, cy) ==
  LET x == WrapCoord(cx)
      y == WrapCoord(cy)
      t00 == tex[<<LoIdx(x), LoIdx(y)>>]
      t10 == tex[<<HiIdx(x), LoIdx(y)>>]
      t01 == tex[<<LoIdx(x), HiIdx(y)>>]
      t11 == tex[<<HiIdx(x), HiIdx(y)>>]
      mix(f) == Blend(Blend(f[1], f[2]), Blend(f[3], f[4]))
  IN  IF x % 2 = 1 /\ y % 2 = 1 THEN t00
      ELSE [r |-> mix(<<t00.r, t10.r, t01.r, t11.r>>),
            g |-> mix(<<t00.g, t10.g, t01.g, t11.g>>),
            b |-> mix(<<t00.b, t10.b, t01.b, t11.b>>),
            a |-> mix(<<t00.a, t10.a, t01.a, t11.a>>)]


\* ------------------------------------------------------------------- state
VARIABLES
  textureA,      \* Water.textureA: the buffer (1 or 2) the next pass samples
  textureB,      \* Water.textureB: the buffer the next pass renders into
  buf,           \* contents of the two render targets: buffer -> texel -> rgba
  wPoolWidth,    \* Water.poolWidth
  wPoolLength,   \* Water.poolLength
  renderTarget,  \* the WebGLRenderer's active render target; 0 is the screen
  gpuMaxNaN,     \* whether this GPU's max(0.0, NaN) yields NaN (else 0.0)
  passLog,       \* passes issued by the handler that ran last, in order
  hist,          \* the last two height-field passes, each with its input field
  lastCall,      \* method and arguments of the last call made to Water
  disturbed,     \* whether addDrop or moveSphere has ever been issued
  calls,         \* number of Water method calls made so far
  written,       \* the height-field buffer rendered into last; 0 before any pass
  causticTex,    \* Renderer.causticTex: what the last caustic pass consumed
  sphereHist,    \* moves: oldCenter and newCenter of the last two moveSphere
                 \* calls of update; sum: what those calls so far added to
                 \* the height of each texel
  screen         \* the last frame drawn: the buffer sampled and the target drawn to

\* main.ts and the Renderer fields it drives
VARIABLES
  phase,         \* "loading" until window.onload ran, then "running" or "failed"
  platform,      \* what the WebGL context offers, as window.onload finds it
  poolWidth,     \* main.ts poolWidth
  poolLength,    \* main.ts poolLength
  poolDepth,     \* main.ts poolDepth
  center,        \* sphere centre
  oldCenter,     \* sphere centre handed to the previous moveSphere
  velocity,      \* sphere velocity
  mode,          \* drag mode: -1 none, 0 add drops, 1 move sphere, 2 orbit camera
  prevHit,       \* last point of the sphere drag
  mousePoint,    \* pointer position on the water plane
  frame,         \* main.ts frame counter
  rSphereIsCenter, \* Renderer.sphereCenter is main.ts's center object
  rSphereRadius, \* Renderer.sphereRadius
  rDims,         \* Renderer poolWidth, poolLength, poolHeight, wallHeight, cube scale
  rUniforms,     \* poolHeight, wallHeight, poolSize uniforms of each Renderer material
  duckPosition,  \* Renderer.duckPosition
  duckHeading,   \* Renderer.duckQuaternion, as the horizontal unit vector it turns +z into
  duckLoaded,    \* Renderer.duckMesh is set (the model finished loading)
  handler,       \* the handler that ran last and its input
  ticks,         \* animation frames run so far
  events         \* input, resize and load events handled so far

VARIABLE
  causticTarget  \* the texels of Renderer.causticTex: color, the colour of each
                 \* texel; stale, the texels that held another colour than the
                 \* clear colour before the last updateCaustics; run, the
                 \* patches that call rasterized, in order; nanDrawn,
                 \* whether the GPU rasterized the patches with a NaN vertex

VARIABLE
  probe          \* one texel under a sphere pass whose oldCenter and newCenter
                 \* are the same, in float arithmetic: before, the texel
                 \* sampled; vol, volumeInSphere of that centre at the texel;
                 \* after, the texel written; center, the centre; done,
                 \* whether a pass has run


\* The Water object and the renderer state its methods touch, as one value.
W == [textureA |-> textureA, textureB |-> textureB, buf |-> buf,
      poolWidth |-> wPoolWidth, poolLength |-> wPoolLength,
      renderTarget |-> renderTarget, passLog |-> passLog, hist |-> hist,
      written |-> written, causticTex |-> causticTex, screen |-> screen,
      sphereHist |-> sphereHist,
      rPoolSize |-> [m \in DOMAIN rUniforms |-> rUniforms[m].poolSize]]

Vec2(x, y) == [x |-> x, y |-> y]
Vec3(x, y, z) == [x |-> x, y |-> y, z |-> z]

\* what passLog keeps of a pass issued in state v: material, buffer sampled,
\* target, the buffer rendered last before it, the render target that was
\* active when the call began, and the pool geometry the Water and the
\* Renderer's materials hold at that moment
PassEntry(v, pass, src, dst) ==
  [pass |-> pass, src |-> src, dst |-> dst, latest |-> v.written,
   bound |-> v.renderTarget,
   pool |-> Vec2(v.poolWidth, v.poolLength), rPool |-> v.rPoolSize]

\* uniforms of the four materials as the constructor leaves them
NoUniforms == [center |-> Vec2(0, 0), radius |-> 0, strength |-> 0,
               oldCenter |-> Vec3(0, 0, 0), newCenter |-> Vec3(0, 0, 0)]

\* ----------------------------------------------------------------- shaders
\* cos(d * PI), d >= 0 in thousandths, tabulated in eighths of d
CosTable == <<1000, 924, 707, 383, 0, -383, -707, -924, -1000>>
cosPi(d) ==
  LET k == ((d * 8) \div ONE) % 16
  IN  CosTable[(IF k > 8 THEN 16 - k ELSE k) + 1]

\* exp(-pow(t * 1.5, 6.0)), t >= 0 in thousandths, tabulated in eighths of t
ExpTable == <<1000, 1000, 997, 969, 837, 507, 132, 6>>
expPow6(t) ==
  LET k == (t * 8) \div ONE
  IN  IF k >= 8 THEN 0 ELSE ExpTable[k + 1]

\* the drop shader's falloff without the max: negative beyond the radius
dropFalloffUnbounded(len, radius) ==
  IF radius = 0 THEN 0 ELSE ONE - RDiv(len * ONE, radius)

\* max(0.0, 1.0 - len / radius) of the drop shader.  len / 0.0 is +Inf for
\* len > 0, so the max is 0.0; 0.0 / 0.0 is NaN and max(0.0, NaN) is whatever
\* the GPU makes of it.
dropFalloff(len, radius) ==
  IF radius = 0
  THEN IF len > 0 THEN 0 ELSE IF gpuMaxNaN THEN NaN ELSE 0
  ELSE Max(0, ONE - RDiv(len * ONE, radius))

\* dropMaterial with the bump added to the velocity channel
dropShaderIntoVelocity(tex, cx, cy, u) ==
  LET info == texture2D(tex, cx, cy)
      ex == RDiv(u.center.x, 2) + ONE \div 2 - CoordMilli(cx)
      ey == RDiv(u.center.y, 2) + ONE \div 2 - CoordMilli(cy)
      d0 == dropFalloff(Sqrt(ex * ex + ey * ey), u.radius)
      drop == IF IsNaN(d0) THEN NaN ELSE ONE \div 2 - RDiv(cosPi(d0), 2)
  IN  [info EXCEPT !.g = FAdd(info.g, FScale(drop, u.strength, ONE))]

\* dropMaterial fragment shader
dropShader(tex, cx, cy, u) ==
  LET info == texture2D(tex, cx, cy)
      ex == RDiv(u.center.x, 2) + ONE \div 2 - CoordMilli(cx)
      ey == RDiv(u.center.y, 2) + ONE \div 2 - CoordMilli(cy)
      d0 == dropFalloff(Sqrt(ex * ex + ey * ey), u.radius)
      drop == IF IsNaN(d0) THEN NaN ELSE ONE \div 2 - RDiv(cosPi(d0), 2)
  IN  [info EXCEPT !.r = FAdd(info.r, FScale(drop, u.strength, ONE))]

\* stiffness and damping of the updateMaterial fragment shader
Stiffness == 2
DampingNum == 995
DampingDen == 1000
\* updateMaterial adding the undamped velocity to the height
updateShaderDampLate(tex, cx, cy) ==
  LET info == texture2D(tex, cx, cy)
      dx == CoordUnits \div GridN
      dy == CoordUnits \div GridN
      average == FScale(FAdd(FAdd(texture2D(tex, cx - dx, cy).r,
                                  texture2D(tex, cx, cy - dy).r),
                             FAdd(texture2D(tex, cx + dx, cy).r,
                                  texture2D(tex, cx, cy + dy).r)), 1, 4)
      g1 == FAdd(info.g, FScale(FSub(average, info.r), Stiffness, 1))
      g2 == FScale(g1, DampingNum, DampingDen)
  IN  [info EXCEPT !.g = g2, !.r = FAdd(info.r, g1)]

\* updateMaterial damping by a constant decrement instead of a factor
updateShaderSubtractiveDamping(tex, cx, cy) ==
  LET info == texture2D(tex, cx, cy)
      dx == CoordUnits \div GridN
      dy == CoordUnits \div GridN
      average == FScale(FAdd(FAdd(texture2D(tex, cx - dx, cy).r,
                                  texture2D(tex, cx, cy - dy).r),
                             FAdd(texture2D(tex, cx + dx, cy).r,
                                  texture2D(tex, cx, cy + dy).r)), 1, 4)
      g1 == FAdd(info.g, FScale(FSub(average, info.r), Stiffness, 1))
      g2 == FSub(g1, HONE - FScale(HONE, DampingNum, DampingDen))
  IN  [info EXCEPT !.g = g2, !.r = FAdd(info.r, g2)]

\* updateMaterial without the damping of the velocity
updateShaderUndamped(tex, cx, cy) ==
  LET info == texture2D(tex, cx, cy)
      dx == CoordUnits \div GridN
      dy == CoordUnits \div GridN
      average == FScale(FAdd(FAdd(texture2D(tex, cx - dx, cy).r,
                                  texture2D(tex, cx, cy - dy).r),
                             FAdd(texture2D(tex, cx + dx, cy).r,
                                  texture2D(tex, cx, cy + dy).r)), 1, 4)
      g1 == FAdd(info.g, FScale(FSub(average, info.r), Stiffness, 1))
  IN  [info EXCEPT !.g = g1, !.r = FAdd(info.r, g1)]

\* updateMaterial fragment shader
updateShader(tex, cx, cy) ==
  LET info == texture2D(tex, cx, cy)
      dx == CoordUnits \div GridN
      dy == CoordUnits \div GridN
      average == FScale(FAdd(FAdd(texture2D(tex, cx - dx, cy).r,
                                  texture2D(tex, cx, cy - dy).r),
                             FAdd(texture2D(tex, cx + dx, cy).r,
                                  texture2D(tex, cx, cy + dy).r)), 1, 4)
      g1 == FAdd(info.g, FScale(FSub(average, info.r), Stiffness, 1))
      g2 == FScale(g1, DampingNum, DampingDen)
  IN  [info EXCEPT !.g = g2, !.r = FAdd(info.r, g2)]

\* normalMaterial writing a whole new texel: normal in b and a, velocity 0
normalShaderClearsVelocity(tex, cx, cy) ==
  LET info == texture2D(tex, cx, cy)
      dc == CoordUnits \div GridN
      delta == HONE \div GridN
      hx == FSub(texture2D(tex, cx + dc, cy).r, info.r)
      hz == FSub(texture2D(tex, cx, cy + dc).r, info.r)
      len == Sqrt(hx * hx + delta * delta + hz * hz)
  IN  IF IsNaN(hx) \/ IsNaN(hz)
      THEN [info EXCEPT !.b = NaN, !.a = NaN, !.g = 0]
      ELSE [info EXCEPT !.b = RDiv(-hx * ONE, len), !.a = RDiv(-hz * ONE, len),
                        !.g = 0]

\* normalMaterial fragment shader.  cross(dy, dx) is
\* (-delta.y * hx, delta.x * delta.y, -delta.x * hz); with delta.x = delta.y
\* its direction is (-hx, delta, -hz), which is what is normalized here.
normalShader(tex, cx, cy) ==
  LET info == texture2D(tex, cx, cy)
      dc == CoordUnits \div GridN
      delta == HONE \div GridN
      hx == FSub(texture2D(tex, cx + dc, cy).r, info.r)
      hz == FSub(texture2D(tex, cx, cy + dc).r, info.r)
      len == Sqrt(hx * hx + delta * delta + hz * hz)
  IN  IF IsNaN(hx) \/ IsNaN(hz)
      THEN [info EXCEPT !.b = NaN, !.a = NaN]
      ELSE [info EXCEPT !.b = RDiv(-hx * ONE, len), !.a = RDiv(-hz * ONE, len)]

\* volumeInSphere(center) of the sphereMaterial fragment shader, in height
\* units (ten-thousandths): (ymax - ymin) in thousandths times 0.1.
volumeInSphere(cx, cy, c, radius) ==
  LET tx == 2 * CoordMilli(cx) - ONE - c.x
      ty == 0 - c.y
      tz == 2 * CoordMilli(cy) - ONE - c.z
      t == RDiv(Sqrt(tx * tx + ty * ty + tz * tz) * ONE, radius)
      dy == expPow6(t)
      ymin == Min(0, c.y - dy)
      ymax == Min(Max(0, c.y + dy), ymin + 2 * dy)
  IN  ((ymax - ymin) * HONE) \div (10 * ONE)

\* sphereMaterial without the subtraction of the new position's volume
sphereShaderAddOnly(tex, cx, cy, u) ==
  LET info == texture2D(tex, cx, cy)
      r1 == FAdd(info.r, volumeInSphere(cx, cy, u.oldCenter, u.radius))
      r2 == FAdd(r1, volumeInSphere(cx, cy, u.newCenter, u.radius))
  IN  [info EXCEPT !.r = r2]

\* sphereMaterial fragment shader
sphereShader(tex, cx, cy, u) ==
  LET info == texture2D(tex, cx, cy)
      r1 == FAdd(info.r, volumeInSphere(cx, cy, u.oldCenter, u.radius))
      r2 == FSub(r1, volumeInSphere(cx, cy, u.newCenter, u.radius))
  IN  [info EXCEPT !.r = r2]

fragmentShader(material, tex, cx, cy, u) ==
  CASE material = "dropMaterial" -> dropShader(tex, cx, cy, u)
    [] material = "updateMaterial" -> updateShader(tex, cx, cy)
    [] material = "normalMaterial" -> normalShader(tex, cx, cy)
    [] material = "sphereMaterial" -> sphereShader(tex, cx, cy, u)

\* waterMaterial vertex shader: coord = position.xz / (poolSize * 2.0) + 0.5,
\* the field coordinate (thousandths) of the world point (x, z)
surfaceCoord(x, z, poolSize) ==
  Vec2(RDiv(x * ONE, 2 * poolSize.x) + ONE \div 2,
       RDiv(z * ONE, 2 * poolSize.y) + ONE \div 2)

\* caustics vertex shader: rawPos.xz = (uv * 2.0 - 1.0) * poolSize, the world
\* point of field coordinate uv
causticRawPos(uv, poolSize) ==
  Vec2(RDiv((2 * uv.x - ONE) * poolSize.x, ONE),
       RDiv((2 * uv.y - ONE) * poolSize.y, ONE))

\* ------------------------------------------------------------------- Water
\* swap without the temporary: both names end on the same buffer
swapNoTemp(w) == [w EXCEPT !.textureA = w.textureB]

\* f as an explicit table of its values: TLC then computes each texel once
\* instead of at every later sample of it
Table(f) == f @@ <<>>

\* Water.swap
swap(w) == [w EXCEPT !.textureA = w.textureB, !.textureB = w.textureA]

\* Water.renderTo: sample textureA, render the full-screen quad into textureB,
\* put the screen back as render target, swap.
renderTo(w, material, u) ==
  CHOOSE after \in
    { swap(drawn) :
        drawn \in
          { LET src == v.textureA
                dst == v.textureB
                out == Table([t \in Texels |->
                          fragmentShader(material, v.buf[src], Coord(t[1]), Coord(t[2]), u)])
                rec == [pass |-> material, src |-> src, dst |-> dst, u |-> u,
                        poolWidth |-> v.poolWidth, poolLength |-> v.poolLength,
                        inp |-> v.buf[src]]
            IN  [v EXCEPT !.buf[dst] = out,
                          !.renderTarget = 0,
                          !.written = dst,
                          !.passLog = Append(@, PassEntry(v, material, src, dst)),
                          !.hist = IF Len(@) < 2 THEN Append(@, rec) ELSE <<@[2], rec>>]
            : v \in {w} } } : TRUE

\* Water.addDrop
\* addDrop dividing by the whole width and length instead of their halves
addDropWholeWidth(w, x, y, radius, strength) ==
  LET nx == RDiv(x * ONE, w.poolWidth)
      ny == RDiv(y * ONE, w.poolLength)
      nRadius == RDiv(radius * 4 * ONE, w.poolWidth + w.poolLength)
  IN  renderTo(w, "dropMaterial",
               [NoUniforms EXCEPT !.center = Vec2(nx, ny), !.radius = nRadius,
                                  !.strength = strength])

\* Water.addDrop
addDrop(w, x, y, radius, strength) ==
  LET nx == RDiv(x * 2 * ONE, w.poolWidth)
      ny == RDiv(y * 2 * ONE, w.poolLength)
      nRadius == RDiv(radius * 4 * ONE, w.poolWidth + w.poolLength)
  IN  renderTo(w, "dropMaterial",
               [NoUniforms EXCEPT !.center = Vec2(nx, ny), !.radius = nRadius,
                                  !.strength = strength])

\* Water.moveSphere
moveSphere(w, old, new, radius) ==
  LET nOld == [old EXCEPT !.x = RDiv(@ * 2 * ONE, w.poolWidth),
                                !.z = RDiv(@ * 2 * ONE, w.poolLength)]
      nNew == [new EXCEPT !.x = RDiv(@ * 2 * ONE, w.poolWidth),
                                !.z = RDiv(@ * 2 * ONE, w.poolLength)]
      nRadius == RDiv(radius * 4 * ONE, w.poolWidth + w.poolLength)
  IN  renderTo(w, "sphereMaterial",
               [NoUniforms EXCEPT !.oldCenter = nOld, !.newCenter = nNew,
                                  !.radius = nRadius])

\* Water.stepSimulation
stepSimulation(w) == renderTo(w, "updateMaterial", NoUniforms)

\* Water.updateNormals
updateNormals(w) == renderTo(w, "normalMaterial", NoUniforms)

\* Water.updateDimensions
updateDimensions(w, width, length) ==
  [w EXCEPT !.poolWidth = width, !.poolLength = length]

\* --------------------------------------------------- Water under any caller
waterVars == <<textureA, textureB, buf, wPoolWidth, wPoolLength, renderTarget,
               gpuMaxNaN, passLog, hist, lastCall, disturbed, calls, written,
               causticTex, sphereHist, screen>>
appVars == <<phase, platform, poolWidth, poolLength, poolDepth, center, oldCenter, velocity,
             mode, prevHit, mousePoint, frame, rSphereIsCenter, rSphereRadius, rDims,
             rUniforms, duckPosition, duckHeading, duckLoaded, handler, ticks, events>>
vars == <<waterVars, appVars, causticTarget, probe>>

NoCall == [method |-> "constructor", x |-> 0, y |-> 0, radius |-> 0, strength |-> 0,
           oldCenter |-> Vec3(0, 0, 0), newCenter |-> Vec3(0, 0, 0)]

\* The Water's fields and the renderer state take the values of w.
Becomes(w) ==
  \E v \in {w} :
    /\ textureA' = v.textureA
    /\ textureB' = v.textureB
    /\ buf' = v.buf
    /\ wPoolWidth' = v.poolWidth
    /\ wPoolLength' = v.poolLength
    /\ renderTarget' = v.renderTarget
    /\ passLog' = v.passLog
    /\ hist' = v.hist
    /\ written' = v.written
    /\ causticTex' = v.causticTex
    /\ sphereHist' = v.sphereHist
    /\ screen' = v.screen
    /\ disturbed' = (disturbed \/ \E i \in 1 .. Len(v.passLog) :
                        v.passLog[i].pass \in {"dropMaterial", "sphereMaterial"})

\* The Water as a handler finds it: no pass issued yet.
Entry == [W EXCEPT !.passLog = <<>>]

\* render targets: 0 the screen, 1 and 2 the height field, then these
CausticTarget == 2 + 1
DuckRefractionTarget == 2 + 2

Materials == {"waterMaterial", "sphereMaterial", "cubeMaterial", "causticsMaterial"}

\* WebGL contexts: WebGL2 with and without EXT_color_buffer_float (without it
\* a FloatType render target is not renderable), and WebGL1 without
\* OES_texture_float
Platforms ==
  { [isWebGL2 |-> TRUE, oesTextureFloat |-> FALSE, floatTargets |-> TRUE],
    [isWebGL2 |-> TRUE, oesTextureFloat |-> FALSE, floatTargets |-> FALSE],
    [isWebGL2 |-> FALSE, oesTextureFloat |-> FALSE, floatTargets |-> FALSE] }

\* before window.onload has looked at the context
NoPlatform == [isWebGL2 |-> FALSE, oesTextureFloat |-> FALSE, floatTargets |-> FALSE]

\* new Water(): textureA and its clone textureB, both cleared, pool 2 x 2
InitWater ==
  /\ textureA = 1
  /\ textureB = 2
  /\ buf = [k \in {1, 2} |-> ZeroField]
  /\ wPoolWidth = 2 * ONE
  /\ wPoolLength = 2 * ONE
  /\ renderTarget = 0
  /\ gpuMaxNaN \in BOOLEAN
  /\ passLog = <<>>
  /\ hist = <<>>
  /\ lastCall = NoCall
  /\ disturbed = FALSE
  /\ calls = 0
  /\ written = 0
  /\ causticTex = [water |-> 0, field |-> ZeroField, sphereCenter |-> Vec3(0, 0, 0),
                   sphereRadius |-> 0, poolSize |-> Vec2(ONE, ONE)]
  /\ sphereHist = [moves |-> <<>>, sum |-> [t \in Texels |-> 0]]
  /\ screen = [water |-> 0, target |-> 0]

\* causticTex is modelled with CausticN x CausticN texels
CausticN == 2
CausticTexels == (0 .. (CausticN - 1)) \X (0 .. (CausticN - 1))

\* renderer.setClearColor(0x000000, 0)
ClearColor == [r |-> 0, g |-> 0, b |-> 0, a |-> 0]

\* causticTex after new Renderer(): a render target nothing has drawn into
InitCaustics ==
  causticTarget = [color |-> [t \in CausticTexels |-> ClearColor],
                   stale |-> {},
                   run |-> <<>>, nanDrawn |-> FALSE]

\* no sphere pass has been looked at in float arithmetic yet
InitProbe ==
  probe = [before |-> ClearColor, vol |-> 0, after |-> ClearColor,
           center |-> [x |-> 0, y |-> 0, z |-> 0], done |-> FALSE]

\* module state of main.ts before window.onload, and new Renderer()
InitApp ==
  /\ phase = "loading"
  /\ platform = NoPlatform
  /\ poolWidth = 2 * ONE
  /\ poolLength = 2 * ONE
  /\ poolDepth = 0
  /\ center = Vec3(0, 0, 0)
  /\ oldCenter = Vec3(0, 0, 0)
  /\ velocity = Vec3(0, 0, 0)
  /\ mode = -1
  /\ prevHit = Vec3(0, 0, 0)
  /\ mousePoint = Vec3(100 * ONE, 100 * ONE, 100 * ONE)
  /\ frame = 0
  /\ rSphereIsCenter = FALSE
  /\ rSphereRadius = 0
  /\ rDims = [poolWidth |-> 2 * ONE, poolLength |-> 2 * ONE, poolHeight |-> 2 * ONE,
              wallHeight |-> ONE, cubeScaleY |-> ONE]
  /\ rUniforms = [m \in Materials |->
                    [poolHeight |-> 2 * ONE, wallHeight |-> ONE, poolSize |-> Vec2(ONE, ONE)]]
  /\ duckPosition = Vec3(0, 0, 0)
  /\ duckHeading = Vec2(0, ONE)
  /\ duckLoaded = FALSE
  /\ handler = [name |-> "none", seconds |-> 0]
  /\ ticks = 0
  /\ events = 0

Init == InitWater /\ InitApp /\ InitCaustics /\ InitProbe

\* arguments callers pass: world x, z, radius (thousandths), strength (height units)
DropArgs ==
  { [x |-> 0, y |-> 0, radius |-> 30, strength |-> 200],
    [x |-> 0, y |-> 0, radius |-> 500, strength |-> -100],
    [x |-> 300, y |-> -400, radius |-> 600, strength |-> 200],
    [x |-> -668, y |-> 0, radius |-> 0, strength |-> 200],
    [x |-> 300, y |-> -400, radius |-> 0, strength |-> 200],
    [x |-> 0, y |-> 0, radius |-> -30, strength |-> 200],
    [x |-> 1500, y |-> 0, radius |-> 500, strength |-> 200] }

CenterA == Vec3(0, 0, 0)
CenterB == Vec3(600, -100, 0)
CenterC == Vec3(0, 400, -600)
\* old centre, new centre, radius, and the strength main.ts passes (thousandths)
SphereArgs ==
  { [oldCenter |-> CenterA, newCenter |-> CenterB, radius |-> 250, strength |-> 40],
    [oldCenter |-> CenterB, newCenter |-> CenterA, radius |-> 250, strength |-> 40],
    [oldCenter |-> CenterA, newCenter |-> CenterC, radius |-> 500, strength |-> 0],
    [oldCenter |-> CenterC, newCenter |-> CenterB, radius |-> 500, strength |-> 1000] }

PoolDims == { <<2 * ONE, 2 * ONE>>, <<4 * ONE, 3 * ONE>> }

CallAddDrop ==
  /\ calls < MaxCalls
  /\ \E d \in DropArgs :
       /\ Becomes(addDrop(Entry, d.x, d.y, d.radius, d.strength))
       /\ lastCall' = [NoCall EXCEPT !.method = "addDrop", !.x = d.x, !.y = d.y,
                                     !.radius = d.radius, !.strength = d.strength]
  /\ calls' = calls + 1
  /\ UNCHANGED <<gpuMaxNaN, causticTarget, probe, appVars>>

\* The caller passes a fifth argument, strength, as main.ts does; the method
\* declares four parameters.
CallMoveSphere ==
  /\ calls < MaxCalls
  /\ \E s \in SphereArgs :
       /\ Becomes(moveSphere(Entry, s.oldCenter, s.newCenter, s.radius))
       /\ lastCall' = [NoCall EXCEPT !.method = "moveSphere", !.radius = s.radius,
                                     !.strength = s.strength,
                                     !.oldCenter = s.oldCenter,
                                     !.newCenter = s.newCenter]
  /\ calls' = calls + 1
  /\ UNCHANGED <<gpuMaxNaN, causticTarget, probe, appVars>>

CallStepSimulation ==
  /\ calls < MaxCalls
  /\ Becomes(stepSimulation(Entry))
  /\ lastCall' = [NoCall EXCEPT !.method = "stepSimulation"]
  /\ calls' = calls + 1
  /\ UNCHANGED <<gpuMaxNaN, causticTarget, probe, appVars>>

CallUpdateNormals ==
  /\ calls < MaxCalls
  /\ Becomes(updateNormals(Entry))
  /\ lastCall' = [NoCall EXCEPT !.method = "updateNormals"]
  /\ calls' = calls + 1
  /\ UNCHANGED <<gpuMaxNaN, causticTarget, probe, appVars>>

CallUpdateDimensions ==
  /\ calls < MaxCalls
  /\ \E p \in PoolDims : Becomes(updateDimensions(Entry, p[1], p[2]))
  /\ lastCall' = [NoCall EXCEPT !.method = "updateDimensions"]
  /\ calls' = calls + 1
  /\ UNCHANGED <<gpuMaxNaN, causticTarget, probe, appVars>>

\* ---------------------------------------------------------------- Renderer
\* Renderer.updateDimensions: the fields it stores
rendererDims(w, l, d, wh) ==
  [poolWidth |-> w, poolLength |-> l, poolHeight |-> d, wallHeight |-> wh,
   cubeScaleY |-> Max(RDiv(d + wh, 2), ONE \div 100)]

\* Renderer.updateDimensions: the uniforms it writes into each material
rendererUniforms(w, l, d, wh) ==
  [m \in Materials |->
     [poolHeight |-> d, wallHeight |-> wh, poolSize |-> Vec2(RDiv(w, 2), RDiv(l, 2))]]

\* updateCaustics sampling water.textureB
updateCausticsOtherBuffer(w, sphereCenter, sphereRadius, uniforms) ==
  CHOOSE after \in
    { [v EXCEPT !.causticTex = [water |-> v.textureB, field |-> v.buf[v.textureB],
                                sphereCenter |-> sphereCenter,
                                sphereRadius |-> sphereRadius,
                                poolSize |-> uniforms.poolSize],
                !.renderTarget = 0,
                !.passLog = Append(@, PassEntry(v, "causticsMaterial", v.textureB, CausticTarget))]
      : v \in {w} } : TRUE

\* Renderer.updateCaustics: sample water.textureA, clear causticTex and render
\* the caustic mesh into it, put the screen back as render target.
updateCaustics(w, sphereCenter, sphereRadius, uniforms) ==
  CHOOSE after \in
    { [v EXCEPT !.causticTex = [water |-> v.textureA, field |-> v.buf[v.textureA],
                                sphereCenter |-> sphereCenter,
                                sphereRadius |-> sphereRadius,
                                poolSize |-> uniforms.poolSize],
                !.renderTarget = 0,
                !.passLog = Append(@, PassEntry(v, "causticsMaterial", v.textureA, CausticTarget))]
      : v \in {w} } : TRUE

\* renderDuckRefraction without the final setRenderTarget(null)
renderDuckRefractionKeepsTarget(w, loaded) ==
  IF ~loaded THEN w
  ELSE CHOOSE after \in
         { [v EXCEPT !.renderTarget = DuckRefractionTarget,
                     !.passLog = Append(@, PassEntry(v, "duckRefraction", 0, DuckRefractionTarget))]
           : v \in {w} } : TRUE

\* Renderer.renderDuckRefraction
renderDuckRefraction(w, loaded) ==
  IF ~loaded THEN w
  ELSE CHOOSE after \in
         { [v EXCEPT !.renderTarget = 0,
                     !.passLog = Append(@, PassEntry(v, "duckRefraction", 0, DuckRefractionTarget))]
           : v \in {w} } : TRUE

\* Renderer.render: the duck refraction pass if the duck is loaded, then the
\* main scene, whose materials sample water.textureA, into the active target.
render(w, loaded) ==
  CHOOSE after \in
    { [v EXCEPT !.screen = [water |-> v.textureA, target |-> v.renderTarget],
                !.passLog = Append(@, PassEntry(v, "scene", v.textureA, v.renderTarget))]
      : v \in {IF loaded THEN renderDuckRefraction(w, loaded) ELSE w} } : TRUE

\* arguments callers pass to Renderer.updateDimensions: width, length, water
\* depth and wall height, thousandths
RendererDimsArgs ==
  { [w |-> 2 * ONE, l |-> 2 * ONE, d |-> 0, wh |-> 1400],
    [w |-> 4 * ONE, l |-> 3 * ONE, d |-> 1400, wh |-> 0] }

CallRendererUpdateDimensions ==
  /\ calls < MaxCalls
  /\ \E a \in RendererDimsArgs :
       /\ rDims' = rendererDims(a.w, a.l, a.d, a.wh)
       /\ rUniforms' = rendererUniforms(a.w, a.l, a.d, a.wh)
  /\ Becomes(Entry)
  /\ lastCall' = [NoCall EXCEPT !.method = "Renderer.updateDimensions"]
  /\ calls' = calls + 1
  /\ UNCHANGED <<gpuMaxNaN, causticTarget, probe, phase, platform, poolWidth, poolLength, poolDepth, center,
                 oldCenter, velocity, mode, prevHit, mousePoint, frame,
                 rSphereIsCenter, rSphereRadius, duckPosition, duckHeading,
                 duckLoaded, handler, ticks, events>>

Next ==
  \/ CallAddDrop
  \/ CallMoveSphere
  \/ CallStepSimulation
  \/ CallUpdateNormals
  \/ CallUpdateDimensions
  \/ CallRendererUpdateDimensions

Spec == Init /\ [][Next]_vars

\* ------------------------------------------------ Renderer: caustic target
\* The caustic pass at the level of its fragments.  The caustic mesh is a
\* sequence of patches (triangles of waterGeometry, in index order).  The
\* vertex shader places each patch in causticTex; what the model takes as
\* given for a patch is the result of that placement: the texels it covers
\* (none when its projected area is zero), the normal channels ba its
\* vertices read from the height field, the areas the fragment shader derives
\* from oldPos and newPos, and the rim and shadow factors of its fragments.

\* the most patches one pass rasterizes
MaxPatches == 2

\* clear() leaving the target as it is
clearNothing(color) == color

\* renderer.clear() on causticTex, after setClearColor(0x000000, 0)
clear(color) == [t \in CausticTexels |-> ClearColor]

\* a * b of two values in thousandths
FMul(a, b) == IF IsNaN(a) \/ IsNaN(b) THEN NaN ELSE RDiv(a * b, ONE)

\* CustomBlending with AddEquation, blendSrc OneFactor, blendDst
\* SrcColorFactor: src * 1 + dst * src, channel by channel
blendChannel(src, dst) == FAdd(src, FMul(dst, src))
blend(src, dst) ==
  [r |-> blendChannel(src.r, dst.r), g |-> blendChannel(src.g, dst.g),
   b |-> blendChannel(src.b, dst.b), a |-> blendChannel(src.a, dst.a)]

\* caustics vertex shader: info.ba *= 0.5;
\* normal.y = sqrt(1.0 - dot(info.ba, info.ba)).  No clamp precedes the sqrt.
normalY(ba) ==
  IF IsNaN(ba.x) \/ IsNaN(ba.y)
  THEN NaN
  ELSE LET hx == RDiv(ba.x, 2)
           hy == RDiv(ba.y, 2)
           arg == ONE - RDiv(hx * hx + hy * hy, ONE)
       IN  IF arg < 0 THEN NaN ELSE Sqrt(arg * ONE)

\* ray, newPos and gl_Position of a vertex are computed from normal, so they
\* are NaN when normal.y is
NaNVertex(p) == IsNaN(normalY(p.ba))

\* caustics fragment shader: r = oldArea / newArea * 0.2 times the rim
\* factor, g = shadow, b = a = 0.  newArea, the shadow and the rim factor
\* are computed from newPos.
causticsFragment(p) ==
  LET newArea == IF NaNVertex(p) THEN NaN ELSE p.newArea
      ratio == IF IsNaN(newArea) THEN NaN ELSE RDiv(p.oldArea * ONE, newArea)
      rim == IF NaNVertex(p) THEN NaN ELSE p.rim
      shadow == IF NaNVertex(p) THEN NaN ELSE p.shadow
  IN  [r |-> FMul(FScale(ratio, 200, ONE), rim), g |-> shadow, b |-> 0, a |-> 0]

\* one patch rasterized into the target.  What a GPU does with a primitive
\* whose vertex position is NaN is undefined: nanDrawn tells whether this one
\* rasterizes it or drops it.
drawPatch(color, p, nanDrawn) ==
  IF NaNVertex(p) /\ ~nanDrawn
  THEN color
  ELSE [t \in CausticTexels |->
          IF t \in p.cover THEN blend(causticsFragment(p), color[t]) ELSE color[t]]

RECURSIVE drawPatches(_, _, _, _)
\* the patches run[i], run[i + 1], ... rasterized in this order
drawPatches(color, run, i, nanDrawn) ==
  IF i > Len(run)
  THEN color
  ELSE drawPatches(Table(drawPatch(color, run[i], nanDrawn)), run, i + 1, nanDrawn)

\* renderer.render(causticsScene, causticsCamera): autoClear is left at its
\* default, true, so render clears the target and then draws the mesh
renderCaustics(color, run, nanDrawn) == drawPatches(clear(color), run, 1, nanDrawn)

\* Renderer.updateCaustics on the texels of causticTex: setClearColor, clear,
\* render
updateCausticsTarget(target, run, nanDrawn) ==
  [color |-> renderCaustics(clear(target.color), run, nanDrawn),
   stale |-> {t \in CausticTexels : target.color[t] # ClearColor},
   run |-> run, nanDrawn |-> nanDrawn]

\* patches of a pass: over flat water (area ratio 1), focused onto one texel,
\* spread over a row under the rim and the sphere's shadow, folded to zero
\* area, and with the NaN normals a NaN height leaves
Patches ==
  { [cover |-> CausticTexels, ba |-> Vec2(0, 0),
     oldArea |-> ONE, newArea |-> ONE, rim |-> ONE, shadow |-> ONE],
    [cover |-> {<<0, 0>>}, ba |-> Vec2(600, 0),
     oldArea |-> 2 * ONE, newArea |-> ONE, rim |-> ONE, shadow |-> ONE],
    [cover |-> {t \in CausticTexels : t[1] = 0}, ba |-> Vec2(0, -600),
     oldArea |-> ONE \div 2, newArea |-> ONE, rim |-> ONE \div 2, shadow |-> ONE \div 2],
    [cover |-> {}, ba |-> Vec2(800, 600),
     oldArea |-> ONE, newArea |-> ONE, rim |-> ONE, shadow |-> ONE],
    [cover |-> {<<0, 0>>}, ba |-> Vec2(NaN, NaN),
     oldArea |-> ONE, newArea |-> ONE, rim |-> ONE, shadow |-> ONE] }

\* the patches of one pass in mesh order: up to MaxPatches different patches
PatchRuns ==
  { run \in UNION { [1 .. n -> Patches] : n \in 1 .. MaxPatches } :
      \A i, j \in 1 .. Len(run) : i # j => run[i] # run[j] }

\* renderer.updateCaustics(sceneRenderer, water) called by any caller
CallUpdateCaustics ==
  /\ \E run \in PatchRuns :
       \E nanDrawn \in {b \in BOOLEAN : b => \E i \in 1 .. Len(run) : NaNVertex(run[i])} :
         causticTarget' = updateCausticsTarget(causticTarget, run, nanDrawn)
  /\ Becomes(updateCaustics(Entry, IF rSphereIsCenter THEN center ELSE Vec3(0, 0, 0),
                             rSphereRadius, rUniforms["causticsMaterial"]))
  /\ lastCall' = [NoCall EXCEPT !.method = "Renderer.updateCaustics"]
  /\ UNCHANGED <<gpuMaxNaN, calls, appVars, probe>>

NextCaustics == CallUpdateCaustics

\* Init on a GPU whose max(0.0, NaN) is 0.  Where no drop of radius 0 is
\* issued max(0.0, NaN) is never evaluated, and this GPU stands for both.
InitMaxZero == Init /\ ~gpuMaxNaN

SpecCaustics == InitMaxZero /\ [][NextCaustics]_vars

\* ------------------------------------------ the sphere pass in float arithmetic
\* The Water above carries heights as exact thousandths.  The sphere shader
\* adds volumeInSphere(oldCenter) to the height and then subtracts
\* volumeInSphere(newCenter), each a float operation that rounds its result;
\* this section applies the two operations to one texel with floats of
\* MantissaBits significant bits (32-bit floats have 24), heights in units of
\* 1 / HONE.
MantissaBits == 8
\* heights of the sampled texel, in units of 1 / HONE
MaxHeight == 40

RECURSIVE ulpFrom(_, _)
ulpFrom(x, u) == IF Abs(x) < u * 2 ^ MantissaBits THEN u ELSE ulpFrom(x, 2 * u)

\* the distance between neighbouring floats around x
Ulp(x) == ulpFrom(x, 1)

\* x rounded to the nearest float, halves to the even one
Fl(x) ==
  LET u == Ulp(x)
      q == x \div u
      rest == x - q * u
  IN  IF 2 * rest < u THEN q * u
      ELSE IF 2 * rest > u THEN (q + 1) * u
      ELSE IF q % 2 = 0 THEN q * u ELSE (q + 1) * u

\* sphereMaterial's main() adding the volume of the new position too
sphereMainFloatAddOnly(info, vOld, vNew) ==
  [info EXCEPT !.r = Fl(Fl(info.r + vOld) + vNew)]

\* sphereMaterial's main(): info.r += volumeInSphere(oldCenter);
\* info.r -= volumeInSphere(newCenter); in float arithmetic
sphereMainFloat(info, vOld, vNew) ==
  [info EXCEPT !.r = Fl(Fl(info.r + vOld) - vNew)]

\* texels a pass can sample: heights and velocities that floats can hold
ProbeTexels ==
  { [r |-> Fl(h), g |-> v, b |-> 0, a |-> 0] :
      h \in (-MaxHeight) .. MaxHeight, v \in {0, -13} }

\* centres at, below and above the water plane, and radii
ProbeSpheres ==
  { [center |-> c, radius |-> radius] :
      c \in {CenterA, CenterB, CenterC}, radius \in {250, 500} }

\* water.moveSphere(renderer, c, c, radius) at one texel of the field, once
MoveSphereInPlace ==
  /\ ~probe.done
  /\ \E info \in ProbeTexels, s \in ProbeSpheres, t \in Texels :
       \E v \in { Fl(volumeInSphere(
                        Coord(t[1]), Coord(t[2]),
                        [s.center EXCEPT !.x = RDiv(@ * 2 * ONE, wPoolWidth),
                                         !.z = RDiv(@ * 2 * ONE, wPoolLength)],
                        RDiv(s.radius * 4 * ONE, wPoolWidth + wPoolLength))) } :
         probe' = [before |-> info, vol |-> v,
                   after |-> sphereMainFloat(info, v, v),
                   center |-> s.center, done |-> TRUE]
  /\ UNCHANGED <<waterVars, appVars, causticTarget>>

NextRounding == MoveSphereInPlace

SpecRounding == InitMaxZero /\ [][NextRounding]_vars

\* ----------------------------------------------------------------- main.ts
containerHeight == 1400
waterFillRatio == 700
sphereFloatRatio == 700
sphereImpactStrength == 40
SphereRadius == 250
gravityY == -4000
paused == FALSE
useSpherePhysics == TRUE
MODE_ADD_DROPS == 0
MODE_MOVE_SPHERE == 1
MODE_ORBIT_CAMERA == 2
\* 2 * dist * tan(45 * PI / 360) with dist = 4
visibleHeight == 3314
\* radius and strength of the drops of window.onload and of a drag
LoadDropRadius == 30
LoadDropStrength == 100
DragDropRadius == 30
DragDropStrength == 200
\* stepSimulation calls per tick
SubSteps == 4

\* bounds of the behaviours of SpecApp
InitDrops == 1
MaxTicks == 2
MaxEvents == 3
MaxSteps == 4

\* Water.getWaterAt(renderer, x, z).height: the height stored at the texel
\* under world position (x, z), in thousandths
getWaterAt(w, x, z) ==
  LET i == Max(0, Min(GridN - 1, ((RDiv(x * ONE, w.poolWidth) + ONE \div 2) * GridN) \div ONE))
      j == Max(0, Min(GridN - 1, ((RDiv(z * ONE, w.poolLength) + ONE \div 2) * GridN) \div ONE))
  IN  RDiv(w.buf[w.textureA][<<i, j>>].r * ONE, HONE)

\* v / |v| of a horizontal vector, three.js normalize (the zero vector stays)
normalize2(v) ==
  LET len == Sqrt(v.x * v.x + v.y * v.y)
  IN  IF len = 0 THEN v ELSE Vec2(RDiv(v.x * ONE, len), RDiv(v.y * ONE, len))

\* update, "1. Physics Update": the part of the sphere's height under water
percentUnderWater(c, waterHeight) ==
  Max(0, Min(ONE, RDiv((waterHeight + SphereRadius - c.y) * ONE, 2 * SphereRadius)))

\* update, "1. Physics Update": gravity and buoyancy
accelerate(c, v, seconds, waterHeight) ==
  LET buoyancyFactor == RDiv(ONE * ONE, ONE - sphereFloatRatio)
      gScale == seconds - RDiv(RDiv(buoyancyFactor * seconds, ONE)
                                 * percentUnderWater(c, waterHeight), ONE)
  IN  [v EXCEPT !.y = @ + RDiv(gravityY * gScale, ONE)]

\* update, "1. Physics Update": the pointer pushes the sphere away when it is
\* within influenceRadius = 1 of it, with pushStrength = 2
repel(c, v, seconds, mp) ==
  LET dx == c.x - mp.x
      dz == c.z - mp.z
      dist == Sqrt(dx * dx + dz * dz)
      push == RDiv(2 * (ONE - dist) * seconds, ONE)
  IN  IF Abs(dx) < ONE /\ Abs(dz) < ONE /\ dist < ONE /\ dist > 0
      THEN [v EXCEPT !.x = @ + RDiv(dx * push, dist), !.z = @ + RDiv(dz * push, dist)]
      ELSE v

\* update, "1. Physics Update": drag, quadratic in the speed
drag(c, v, seconds, waterHeight) ==
  LET lenSq == v.x * v.x + v.y * v.y + v.z * v.z
      len == Sqrt(lenSq)
      k == RDiv(RDiv(percentUnderWater(c, waterHeight) * seconds, ONE)
                  * RDiv(lenSq, ONE), ONE)
  IN  IF len > 0
      THEN Vec3(v.x - RDiv(v.x * k, len), v.y - RDiv(v.y * k, len),
                v.z - RDiv(v.z * k, len))
      ELSE v

\* update, "1. Physics Update": the motion, then the walls and the floor
collide(c, v, seconds, pw, pl, pd) ==
  LET x == c.x + RDiv(v.x * seconds, ONE)
      y == c.y + RDiv(v.y * seconds, ONE)
      z == c.z + RDiv(v.z * seconds, ONE)
      xLo == SphereRadius - RDiv(pw, 2)
      xHi == RDiv(pw, 2) - SphereRadius
      zLo == SphereRadius - RDiv(pl, 2)
      zHi == RDiv(pl, 2) - SphereRadius
      yLo == SphereRadius - pd
  IN  [center |-> Vec3(IF x < xLo THEN xLo ELSE IF x > xHi THEN xHi ELSE x,
                       IF y < yLo THEN yLo ELSE y,
                       IF z < zLo THEN zLo ELSE IF z > zHi THEN zHi ELSE z),
       velocity |-> Vec3(IF x < xLo THEN RDiv(Abs(v.x), 2)
                         ELSE IF x > xHi THEN -RDiv(Abs(v.x), 2) ELSE v.x,
                         IF y < yLo THEN RDiv(Abs(v.y) * 7, 10) ELSE v.y,
                         IF z < zLo THEN RDiv(Abs(v.z), 2)
                         ELSE IF z > zHi THEN -RDiv(Abs(v.z), 2) ELSE v.z)]

\* update, "1. Physics Update", the useSpherePhysics branch
spherePhysics(c, v, seconds, waterHeight, mp, pw, pl, pd) ==
  CHOOSE after \in
    { collide(c, v3, seconds, pw, pl, pd) :
        v3 \in { drag(c, v2, seconds, waterHeight) :
                 v2 \in { repel(c, v1, seconds, mp) :
                          v1 \in {accelerate(c, v, seconds, waterHeight)} } } } : TRUE

\* update, "2. Duck Visual Update": the heading turns a twentieth of the way
\* towards the horizontal velocity, or stays when that is small
duckTurn(heading, v) ==
  LET z == IF v.x * v.x + v.z * v.z < ONE THEN heading ELSE Vec2(v.x, v.z)
      target == normalize2(z)
  IN  normalize2(Vec2(RDiv(95 * heading.x + 5 * target.x, 100),
                      RDiv(95 * heading.y + 5 * target.y, 100)))

RECURSIVE stepTimes(_, _)
\* for (let i = 0; i < n; i++) water.stepSimulation(sceneRenderer)
stepTimes(w, n) == IF n = 0 THEN w ELSE stepTimes(stepSimulation(w), n - 1)

\* update with one stepSimulation call too many
simulateOneStepMore(w, oldC, c, strength, sphereCenter, sphereRadius, uniforms) ==
  updateCaustics(updateNormals(stepTimes(moveSphere(w, oldC, c, SphereRadius),
                                         SubSteps + 1)),
                 sphereCenter, sphereRadius, uniforms)

\* water.moveSphere(sceneRenderer, oldCenter, center, radius, ...) of update,
\* with sphereHist brought up to date: the arguments of the call, and what it
\* added to each height
moveSphereOfTick(w, oldC, c) ==
  CHOOSE after \in
    { [m EXCEPT
         !.sphereHist =
           [moves |-> IF Len(@.moves) < 2
                      THEN Append(@.moves, [old |-> oldC, new |-> c])
                      ELSE <<@.moves[2], [old |-> oldC, new |-> c]>>,
            sum |-> Table([t \in Texels |->
                             FAdd(@.sum[t],
                                  FSub(m.buf[m.textureA][t].r,
                                       m.buf[m.textureB][t].r))])]]
      : m \in {moveSphere(w, oldC, c, SphereRadius)} } : TRUE

\* update, "3. Water Simulation Interaction" and what follows it: moveSphere
\* (its fifth argument, strength, has no parameter to land in), the wave
\* steps, updateNormals, updateCaustics
simulate(w, oldC, c, strength, sphereCenter, sphereRadius, uniforms) ==
  updateCaustics(updateNormals(stepTimes(moveSphereOfTick(w, oldC, c), SubSteps)),
                 sphereCenter, sphereRadius, uniforms)

\* update without oldCenter.copy(center)
updateWithoutCopy(w, seconds) ==
  IF seconds > ONE
  THEN [center |-> center, velocity |-> velocity, oldCenter |-> oldCenter,
        duckPosition |-> duckPosition, duckHeading |-> duckHeading,
        frame |-> frame, w |-> w]
  ELSE CHOOSE after \in
         { [center |-> moved.center, velocity |-> moved.velocity,
            oldCenter |-> oldCenter,
            duckPosition |-> [moved.center EXCEPT !.y = @ - ONE \div 10],
            duckHeading |-> duckTurn(duckHeading, moved.velocity),
            frame |-> frame + 2 * seconds,
            w |-> simulate(w, oldCenter, moved.center, sphereImpactStrength,
                           IF rSphereIsCenter THEN moved.center ELSE Vec3(0, 0, 0),
                           rSphereRadius, rUniforms["causticsMaterial"])]
           : moved \in
               { IF mode = MODE_MOVE_SPHERE
                 THEN [center |-> center, velocity |-> Vec3(0, 0, 0)]
                 ELSE IF useSpherePhysics
                 THEN spherePhysics(center, velocity, seconds,
                                    getWaterAt(w, center.x, center.z), mousePoint,
                                    poolWidth, poolLength, poolDepth)
                 ELSE [center |-> center, velocity |-> velocity] } } : TRUE

\* update without the early return for seconds > 1
updateNeverSkips(w, seconds) ==
  IF seconds > ONE /\ FALSE
  THEN [center |-> center, velocity |-> velocity, oldCenter |-> oldCenter,
        duckPosition |-> duckPosition, duckHeading |-> duckHeading,
        frame |-> frame, w |-> w]
  ELSE CHOOSE after \in
         { [center |-> moved.center, velocity |-> moved.velocity,
            oldCenter |-> moved.center,
            duckPosition |-> [moved.center EXCEPT !.y = @ - ONE \div 10],
            duckHeading |-> duckTurn(duckHeading, moved.velocity),
            frame |-> frame + 2 * seconds,
            w |-> simulate(w, oldCenter, moved.center, sphereImpactStrength,
                           IF rSphereIsCenter THEN moved.center ELSE Vec3(0, 0, 0),
                           rSphereRadius, rUniforms["causticsMaterial"])]
           : moved \in
               { IF mode = MODE_MOVE_SPHERE
                 THEN [center |-> center, velocity |-> Vec3(0, 0, 0)]
                 ELSE IF useSpherePhysics
                 THEN spherePhysics(center, velocity, seconds,
                                    getWaterAt(w, center.x, center.z), mousePoint,
                                    poolWidth, poolLength, poolDepth)
                 ELSE [center |-> center, velocity |-> velocity] } } : TRUE

\* update that runs the sphere physics during a sphere drag too
updateDragPhysics(w, seconds) ==
  IF seconds > ONE
  THEN [center |-> center, velocity |-> velocity, oldCenter |-> oldCenter,
        duckPosition |-> duckPosition, duckHeading |-> duckHeading,
        frame |-> frame, w |-> w]
  ELSE CHOOSE after \in
         { [center |-> moved.center, velocity |-> moved.velocity,
            oldCenter |-> moved.center,
            duckPosition |-> [moved.center EXCEPT !.y = @ - ONE \div 10],
            duckHeading |-> duckTurn(duckHeading, moved.velocity),
            frame |-> frame + 2 * seconds,
            w |-> simulate(w, oldCenter, moved.center, sphereImpactStrength,
                           IF rSphereIsCenter THEN moved.center ELSE Vec3(0, 0, 0),
                           rSphereRadius, rUniforms["causticsMaterial"])]
           : moved \in
               { IF mode = MODE_MOVE_SPHERE /\ FALSE
                 THEN [center |-> center, velocity |-> Vec3(0, 0, 0)]
                 ELSE IF useSpherePhysics
                 THEN spherePhysics(center, velocity, seconds,
                                    getWaterAt(w, center.x, center.z), mousePoint,
                                    poolWidth, poolLength, poolDepth)
                 ELSE [center |-> center, velocity |-> velocity] } } : TRUE

\* update(seconds): what it leaves in center, velocity, the duck, frame and w
update(w, seconds) ==
  IF seconds > ONE
  THEN [center |-> center, velocity |-> velocity, oldCenter |-> oldCenter,
        duckPosition |-> duckPosition, duckHeading |-> duckHeading,
        frame |-> frame, w |-> w]
  ELSE CHOOSE after \in
         { [center |-> moved.center, velocity |-> moved.velocity,
            oldCenter |-> moved.center,
            duckPosition |-> [moved.center EXCEPT !.y = @ - ONE \div 10],
            duckHeading |-> duckTurn(duckHeading, moved.velocity),
            frame |-> frame + 2 * seconds,
            w |-> simulate(w, oldCenter, moved.center, sphereImpactStrength,
                           IF rSphereIsCenter THEN moved.center ELSE Vec3(0, 0, 0),
                           rSphereRadius, rUniforms["causticsMaterial"])]
           : moved \in
               { IF mode = MODE_MOVE_SPHERE
                 THEN [center |-> center, velocity |-> Vec3(0, 0, 0)]
                 ELSE IF useSpherePhysics
                 THEN spherePhysics(center, velocity, seconds,
                                    getWaterAt(w, center.x, center.z), mousePoint,
                                    poolWidth, poolLength, poolDepth)
                 ELSE [center |-> center, velocity |-> velocity] } } : TRUE

\* draw(): renderer.sphereCenter = center, renderer.sphereRadius = radius, render
draw(w) == render(w, duckLoaded)

\* updatePoolDimensions without the call of water.updateDimensions
updatePoolDimensionsRendererOnly(w, pw, pl) ==
  LET waterDepth == RDiv(containerHeight * waterFillRatio, ONE)
      wallHeight == RDiv(containerHeight * (ONE - waterFillRatio), ONE)
  IN  /\ poolDepth' = waterDepth
      /\ rDims' = rendererDims(pw, pl, waterDepth, wallHeight)
      /\ rUniforms' = rendererUniforms(pw, pl, waterDepth, wallHeight)
      /\ Becomes(w)

\* updatePoolDimensions() with poolWidth = pw and poolLength = pl
updatePoolDimensions(w, pw, pl) ==
  LET waterDepth == RDiv(containerHeight * waterFillRatio, ONE)
      wallHeight == RDiv(containerHeight * (ONE - waterFillRatio), ONE)
  IN  /\ poolDepth' = waterDepth
      /\ rDims' = rendererDims(pw, pl, waterDepth, wallHeight)
      /\ rUniforms' = rendererUniforms(pw, pl, waterDepth, wallHeight)
      /\ Becomes(updateDimensions(w, pw, pl))

\* width / height of the window, thousandths
Aspects == {ONE, (3 * ONE) \div 2}

\* onresize(): the pool fills the visible area
onresize(w, aspect) ==
  /\ poolWidth' = RDiv(visibleHeight * aspect, ONE)
  /\ poolLength' = visibleHeight
  /\ updatePoolDimensions(w, RDiv(visibleHeight * aspect, ONE), visibleHeight)

\* Math.random() * 2 - 1 for x and z of a drop of window.onload
RECURSIVE loadDrops(_, _, _)
\* for (i ...) water.addDrop(x, z, 0.03, i & 1 ? 0.01 : -0.01), from drop i on
loadDrops(w, ps, i) ==
  IF i >= Len(ps) THEN w
  ELSE loadDrops(addDrop(w, ps[i + 1].x, ps[i + 1].y, LoadDropRadius,
                         IF i % 2 = 1 THEN LoadDropStrength ELSE -LoadDropStrength),
                 ps, i + 1)

\* the drop positions of window.onload: a run of Math.random()
LoadDropRuns ==
  { [i \in 1 .. InitDrops |-> IF i % 2 = 1 THEN Vec2(-668, 668) ELSE Vec2(0, 0)] }

\* window.onload: throws when the context is neither WebGL2 nor has
\* OES_texture_float; else builds Water and Renderer, adds the drops, sizes
\* the pool and starts the animation loop
onload ==
  /\ phase = "loading"
  /\ \E pf \in Platforms :
       /\ platform' = pf
       /\ IF ~pf.isWebGL2 /\ ~pf.oesTextureFloat
          THEN /\ phase' = "failed"
               /\ handler' = [name |-> "onload", seconds |-> 0]
               /\ UNCHANGED <<waterVars, causticTarget, probe, poolWidth, poolLength, poolDepth, center,
                              oldCenter, velocity, mode, prevHit, mousePoint, frame,
                              rSphereIsCenter, rSphereRadius, rDims, rUniforms,
                              duckPosition, duckHeading, duckLoaded, ticks, events>>
          ELSE /\ phase' = "running"
               /\ handler' = [name |-> "onload", seconds |-> 0]
               /\ \E ps \in LoadDropRuns, aspect \in Aspects :
                    onresize(loadDrops(Entry, ps, 0), aspect)
               /\ center' = Vec3(0, 0, 0)
               /\ oldCenter' = Vec3(0, 0, 0)
               /\ velocity' = Vec3(0, 0, 0)
               /\ UNCHANGED <<gpuMaxNaN, causticTarget, probe, lastCall, calls, mode, prevHit, mousePoint,
                              frame, rSphereIsCenter, rSphereRadius, duckPosition,
                              duckHeading, duckLoaded, ticks, events>>

\* seconds since the previous animation frame, thousandths
FrameTimes == {ONE \div 10, (3 * ONE) \div 2}

\* animate(): update and draw (paused is never set)
animate ==
  /\ phase = "running"
  /\ ticks < MaxTicks
  /\ ticks + events < MaxSteps
  /\ \E seconds \in FrameTimes :
       \E u \in {update(Entry, seconds)} :
           /\ center' = u.center
           /\ velocity' = u.velocity
           /\ oldCenter' = u.oldCenter
           /\ duckPosition' = u.duckPosition
           /\ duckHeading' = u.duckHeading
           /\ frame' = u.frame
           /\ Becomes(IF paused THEN u.w ELSE draw(u.w))
           /\ handler' = [name |-> "animate", seconds |-> seconds]
  /\ rSphereIsCenter' = TRUE
  /\ rSphereRadius' = SphereRadius
  /\ ticks' = ticks + 1
  /\ UNCHANGED <<gpuMaxNaN, causticTarget, probe, lastCall, calls, phase, platform, poolWidth, poolLength, poolDepth,
                 mode, prevHit, mousePoint, rDims, rUniforms, duckLoaded, events>>

\* points of the water plane a pointer ray can meet
PlanePoints == {Vec3(400, 0, -300), Vec3(3 * ONE, 0, 0)}

\* startDrag: the ray meets the sphere, or the water plane at p, or neither
startDrag ==
  /\ phase = "running"
  /\ events < MaxEvents
  /\ ticks + events < MaxSteps
  /\ \/ /\ mode' = MODE_MOVE_SPHERE
        /\ prevHit' = [center EXCEPT !.y = @ + SphereRadius]
        /\ Becomes(Entry)
        /\ UNCHANGED mousePoint
     \/ \E p \in PlanePoints :
          IF Abs(p.x) < RDiv(poolWidth, 2) /\ Abs(p.z) < RDiv(poolLength, 2)
          THEN /\ mode' = MODE_ADD_DROPS
               /\ Becomes(addDrop(Entry, p.x, p.z, DragDropRadius, DragDropStrength))
               /\ UNCHANGED <<prevHit, mousePoint>>
          ELSE /\ mode' = MODE_ORBIT_CAMERA
               /\ Becomes(Entry)
               /\ UNCHANGED <<prevHit, mousePoint>>
  /\ handler' = [name |-> "startDrag", seconds |-> 0]
  /\ events' = events + 1
  /\ UNCHANGED <<gpuMaxNaN, causticTarget, probe, lastCall, calls, phase, platform, poolWidth, poolLength, poolDepth,
                 center, oldCenter, velocity, frame, rSphereIsCenter, rSphereRadius,
                 rDims, rUniforms, duckPosition, duckHeading, duckLoaded, ticks>>

\* how far a sphere drag moves the hit point between two pointer events
DragMoves == {Vec3(2 * ONE, 0, 0), Vec3(0, -2 * ONE, -3 * ONE)}

\* duringDrag: the ray meets the plane it is tested against (hit) or not;
\* paused is never set, so the branches under it are not taken
duringDrag ==
  /\ phase = "running"
  /\ events < MaxEvents
  /\ ticks + events < MaxSteps
  /\ \/ /\ mode = MODE_ADD_DROPS
        /\ \E p \in PlanePoints, hit \in BOOLEAN, fromTouch \in BOOLEAN :
             /\ Becomes(IF hit
                        THEN addDrop(Entry, p.x, p.z, DragDropRadius, DragDropStrength)
                        ELSE Entry)
             /\ mousePoint' = IF hit /\ fromTouch THEN p ELSE mousePoint
        /\ UNCHANGED <<center, prevHit>>
     \/ /\ mode = MODE_MOVE_SPHERE
        /\ Becomes(Entry)
        /\ UNCHANGED <<center, prevHit, mousePoint>>
     \/ /\ mode = MODE_MOVE_SPHERE
        /\ \E d \in DragMoves :
             /\ center' =
                  Vec3(Max(SphereRadius - RDiv(poolWidth, 2),
                           Min(RDiv(poolWidth, 2) - SphereRadius, center.x + d.x)),
                       Max(SphereRadius - poolDepth, Min(10 * ONE, center.y + d.y)),
                       Max(SphereRadius - RDiv(poolLength, 2),
                           Min(RDiv(poolLength, 2) - SphereRadius, center.z + d.z)))
             /\ prevHit' = Vec3(prevHit.x + d.x, prevHit.y + d.y, prevHit.z + d.z)
        /\ Becomes(Entry)
        /\ UNCHANGED mousePoint
     \/ /\ mode \in {MODE_ORBIT_CAMERA, -1}
        /\ Becomes(Entry)
        /\ UNCHANGED <<center, prevHit, mousePoint>>
  /\ handler' = [name |-> "duringDrag", seconds |-> 0]
  /\ events' = events + 1
  /\ UNCHANGED <<gpuMaxNaN, causticTarget, probe, lastCall, calls, phase, platform, poolWidth, poolLength, poolDepth,
                 oldCenter, velocity, mode, frame, rSphereIsCenter, rSphereRadius,
                 rDims, rUniforms, duckPosition, duckHeading, duckLoaded, ticks>>

\* stopDrag
stopDrag ==
  /\ phase = "running"
  /\ events < MaxEvents
  /\ ticks + events < MaxSteps
  /\ mode' = -1
  /\ Becomes(Entry)
  /\ handler' = [name |-> "stopDrag", seconds |-> 0]
  /\ events' = events + 1
  /\ UNCHANGED <<gpuMaxNaN, causticTarget, probe, lastCall, calls, phase, platform, poolWidth, poolLength, poolDepth,
                 center, oldCenter, velocity, prevHit, mousePoint, frame,
                 rSphereIsCenter, rSphereRadius, rDims, rUniforms, duckPosition,
                 duckHeading, duckLoaded, ticks>>

\* window.onresize
resize ==
  /\ phase = "running"
  /\ events < MaxEvents
  /\ ticks + events < MaxSteps
  /\ \E aspect \in Aspects : onresize(Entry, aspect)
  /\ handler' = [name |-> "onresize", seconds |-> 0]
  /\ events' = events + 1
  /\ UNCHANGED <<gpuMaxNaN, causticTarget, probe, lastCall, calls, phase, platform, center, oldCenter, velocity, mode,
                 prevHit, mousePoint, frame, rSphereIsCenter, rSphereRadius,
                 duckPosition, duckHeading, duckLoaded, ticks>>

\* where the pointer hovers: a point within 1 of the sphere, which pushes it;
\* a pointer further away acts on the sphere as the initial mousePoint does
HoverPoints == {Vec3(400, 0, -300)}

\* the mousemove listener of window.onload: onMove sets mousePoint
mousemove ==
  /\ phase = "running"
  /\ events < MaxEvents
  /\ ticks + events < MaxSteps
  /\ \E p \in HoverPoints : mousePoint' = p
  /\ Becomes(Entry)
  /\ handler' = [name |-> "mousemove", seconds |-> 0]
  /\ events' = events + 1
  /\ UNCHANGED <<gpuMaxNaN, causticTarget, probe, lastCall, calls, phase, platform, poolWidth, poolLength, poolDepth,
                 center, oldCenter, velocity, mode, prevHit, frame, rSphereIsCenter,
                 rSphereRadius, rDims, rUniforms, duckPosition, duckHeading,
                 duckLoaded, ticks>>

\* the callback of loader.load in Renderer.loadDuck
duckLoad ==
  /\ phase = "running"
  /\ ~duckLoaded
  /\ events < MaxEvents
  /\ ticks + events < MaxSteps
  /\ duckLoaded' = TRUE
  /\ Becomes(Entry)
  /\ handler' = [name |-> "loadDuck", seconds |-> 0]
  /\ events' = events + 1
  /\ UNCHANGED <<gpuMaxNaN, causticTarget, probe, lastCall, calls, phase, platform, poolWidth, poolLength, poolDepth,
                 center, oldCenter, velocity, mode, prevHit, mousePoint, frame,
                 rSphereIsCenter, rSphereRadius, rDims, rUniforms, duckPosition,
                 duckHeading, ticks>>

NextApp ==
  \/ onload
  \/ animate
  \/ startDrag
  \/ duringDrag
  \/ stopDrag
  \/ resize
  \/ mousemove
  \/ duckLoad

\* main.ts passes no radius of 0
SpecApp == InitMaxZero /\ [][NextApp]_vars

\* ------------------------------------------------------------------ claims
\* the pass issued last, with the field it sampled, and the field it wrote
LastPass == hist[Len(hist)]
Before == LastPass.inp
After == buf[textureA]
Channels(t) == <<t.r, t.g, t.b, t.a>>
HasNaN(field) == \E t \in Texels : \E k \in 1 .. 4 : IsNaN(Channels(field[t])[k])

\* C1: every height-field pass samples one buffer and renders into the other,
\* and textureA and textureB always name the two distinct buffers the
\* constructor created.
C1_PassReadsAndWritesDistinctBuffers ==
  /\ textureA # textureB
  /\ {textureA, textureB} = {1, 2}
  /\ \A i \in 1 .. Len(passLog) : passLog[i].src # passLog[i].dst
  /\ \A i \in 1 .. Len(hist) : hist[i].src # hist[i].dst

C1_Witness ==
  /\ Len(hist) = 2
  /\ hist[1].src = 1 /\ hist[1].dst = 2
  /\ hist[2].src = 2 /\ hist[2].dst = 1
  /\ textureA = 1

\* C2: once a pass has rendered, the buffer it wrote is the one textureA
\* names, and every later pass, updateCaustics and render that samples the
\* height field samples the buffer written last, so no pass of a handler and
\* no handler after it sees the field one pass behind.
C2_LatestWrittenBufferIsRead ==
  /\ written # 0 => textureA = written
  /\ \A i \in 1 .. Len(passLog) :
       (passLog[i].src # 0 /\ passLog[i].latest # 0)
         => passLog[i].src = passLog[i].latest
  /\ (\E i \in 1 .. Len(passLog) : passLog[i].pass = "causticsMaterial")
       => causticTex.water = written /\ causticTex.field = buf[written]
  /\ (\E i \in 1 .. Len(passLog) : passLog[i].pass = "scene")
       => screen.water = textureA

C2_Witness ==
  /\ handler.name = "animate"
  /\ Len(passLog) >= SubSteps + 4
  /\ passLog[Len(passLog)].pass = "scene"
  /\ passLog[Len(passLog)].src = written
  /\ passLog[SubSteps + 3].pass = "causticsMaterial"
  /\ passLog[SubSteps + 3].src = passLog[SubSteps + 2].dst
  /\ buf[textureA] # buf[textureB]

\* the materials of the passes of the last handler, in the order issued
Passes == [i \in 1 .. Len(passLog) |-> passLog[i].pass]

\* C3: a tick that is not skipped issues moveSphere once, then stepSimulation
\* four times, then updateNormals once, then updateCaustics once, and the
\* caustic pass samples the buffer the normals pass wrote: nothing renders
\* into the height field between the two, and only the draw follows.
C3_TickPassOrder ==
  (handler.name = "animate" /\ handler.seconds <= ONE) =>
    /\ Len(passLog) >= 7
    /\ SubSeq(Passes, 1, 7) =
         <<"sphereMaterial", "updateMaterial", "updateMaterial", "updateMaterial",
           "updateMaterial", "normalMaterial", "causticsMaterial">>
    /\ \A i \in 8 .. Len(passLog) : passLog[i].pass \in {"duckRefraction", "scene"}
    /\ passLog[7].src = passLog[6].dst
    /\ causticTex.water = passLog[6].dst
    /\ causticTex.field = buf[passLog[6].dst]

C3_Witness ==
  /\ handler.name = "animate"
  /\ handler.seconds <= ONE
  /\ Len(hist) = 2
  /\ hist[1].pass = "updateMaterial"
  /\ hist[2].pass = "normalMaterial"
  /\ hist[1].inp # buf[hist[1].dst]
  /\ hist[2].inp # buf[hist[2].dst]
  /\ causticTex.field = buf[hist[2].dst]

\* the axis neighbours of texel index i, clamped at the edges of the grid
Lower(i) == Max(0, i - 1)
Upper(i) == Min(GridN - 1, i + 1)

\* v' and h' of the wave equation at texel t of field `old`, taking hl, hd,
\* hr, hu as the four neighbour heights
WaveRule(old, t, hl, hd, hr, hu) ==
  LET h == old[t].r
      v == old[t].g
  IN  IF \E x \in {h, v, hl, hd, hr, hu} : IsNaN(x)
      THEN [g |-> NaN, r |-> NaN]
      ELSE LET avg == RDiv(hl + hd + hr + hu, 4)
               v1 == RDiv((v + (avg - h) * 2) * 995, 1000)
           IN  [g |-> v1, r |-> h + v1]

\* C4: stepSimulation sets, at every texel, v' = (v + (avg - h) * 2.0) * 0.995
\* and h' = h + v', with h, v and the four neighbour heights all taken from
\* the field as it was before the step.
C4_StepSimulationRule ==
  lastCall.method = "stepSimulation" =>
    \A t \in Texels :
      LET i == t[1]
          j == t[2]
          new == WaveRule(Before, t, Before[<<Lower(i), j>>].r, Before[<<i, Lower(j)>>].r,
                          Before[<<Upper(i), j>>].r, Before[<<i, Upper(j)>>].r)
      IN  /\ After[t].g = new.g
          /\ After[t].r = new.r
          /\ After[t].b = Before[t].b
          /\ After[t].a = Before[t].a

\* a step applied to a field that is neither flat nor at rest
C4_Witness ==
  /\ lastCall.method = "stepSimulation"
  /\ ~HasNaN(Before)
  /\ \E t, s \in Texels : Before[t].r # Before[s].r /\ Before[t].g # 0
  /\ \E t \in Texels : After[t].g # Before[t].g /\ After[t].g # 0

\* C5: as long as no addDrop and no moveSphere has been issued, height and
\* velocity are zero at every texel, however many stepSimulation passes ran.
C5_ZeroFieldStaysZero ==
  ~disturbed => \A t \in Texels : After[t].r = 0 /\ After[t].g = 0

C5_Witness ==
  /\ ~disturbed
  /\ Len(hist) = 2
  /\ hist[1].pass = "updateMaterial"
  /\ hist[2].pass = "updateMaterial"

\* C6: at a boundary texel the neighbour sample of stepSimulation and of
\* updateNormals that falls outside the grid is the boundary texel itself.
C6_EdgeSamplesAreClamped ==
  /\ lastCall.method = "stepSimulation" =>
       \A t \in Texels :
         LET i == t[1]
             j == t[2]
             hl == IF i = 0 THEN Before[t].r ELSE Before[<<i - 1, j>>].r
             hd == IF j = 0 THEN Before[t].r ELSE Before[<<i, j - 1>>].r
             hr == IF i = GridN - 1 THEN Before[t].r ELSE Before[<<i + 1, j>>].r
             hu == IF j = GridN - 1 THEN Before[t].r ELSE Before[<<i, j + 1>>].r
             new == WaveRule(Before, t, hl, hd, hr, hu)
         IN  (i \in {0, GridN - 1} \/ j \in {0, GridN - 1}) =>
               After[t].g = new.g /\ After[t].r = new.r
  /\ (lastCall.method = "updateNormals" /\ ~HasNaN(Before)) =>
       \A t \in Texels :
         \* the sample beyond the last column (row) is the texel itself, so
         \* that height difference is zero and so is the normal component
         /\ t[1] = GridN - 1 => After[t].b = 0
         /\ t[2] = GridN - 1 => After[t].a = 0

\* the height the wrapped (opposite-edge) neighbour would contribute
Wrapped(i) == i % GridN

\* a step and then a normal pass, each at a boundary texel where the texel on
\* the opposite edge would have given another result
C6_Witness ==
  /\ lastCall.method = "updateNormals"
  /\ Len(hist) = 2
  /\ hist[1].pass = "updateMaterial"
  /\ ~HasNaN(hist[1].inp)
  /\ ~HasNaN(Before)
  /\ \E t \in Texels :
       /\ t[1] = 0
       /\ WaveRule(hist[1].inp, t, hist[1].inp[<<Wrapped(t[1] - 1), t[2]>>].r,
                   hist[1].inp[<<t[1], Wrapped(t[2] - 1)>>].r,
                   hist[1].inp[<<Wrapped(t[1] + 1), t[2]>>].r,
                   hist[1].inp[<<t[1], Wrapped(t[2] + 1)>>].r).r # Before[t].r
  /\ \E t \in Texels :
       t[1] = GridN - 1 /\ Before[<<0, t[2]>>].r # Before[t].r

\* C7: addDrop with a zero or negative radius leaves every channel of every
\* texel unchanged and produces no NaN.
C7_MalformedDropIsNoOp ==
  (lastCall.method = "addDrop" /\ lastCall.radius <= 0) =>
    /\ After = Before
    /\ ~HasNaN(After)

\* C8: moveSphere adds strength * (volumeInSphere(oldCenter) -
\* volumeInSphere(newCenter)) to every height, strength being the fifth
\* argument of the call.
C8_DisplacementScalesWithStrength ==
  (lastCall.method = "moveSphere" /\ ~HasNaN(Before)) =>
    \A t \in Texels :
      LET u == LastPass.u
          vOld == volumeInSphere(Coord(t[1]), Coord(t[2]), u.oldCenter, u.radius)
          vNew == volumeInSphere(Coord(t[1]), Coord(t[2]), u.newCenter, u.radius)
      IN  After[t].r = Before[t].r + RDiv(lastCall.strength * (vOld - vNew), ONE)

C10_ImpulsesChangeHeightOnly ==
  lastCall.method \in {"addDrop", "moveSphere"} =>
    \A t \in Texels :
      /\ After[t].g = Before[t].g
      /\ After[t].b = Before[t].b
      /\ After[t].a = Before[t].a

\* a drop that changed the height of a texel whose velocity is not zero
C10_Witness ==
  /\ lastCall.method = "addDrop"
  /\ \E t \in Texels : After[t].r # Before[t].r /\ Before[t].g # 0


\* distance of texel t from the centre of the drop of the last pass, over the
\* drop's normalized radius, in thousandths
DropDistance(t) ==
  LET ex == RDiv(LastPass.u.center.x, 2) + ONE \div 2 - CoordMilli(Coord(t[1]))
      ey == RDiv(LastPass.u.center.y, 2) + ONE \div 2 - CoordMilli(Coord(t[2]))
  IN  RDiv(Sqrt(ex * ex + ey * ey) * ONE, LastPass.u.radius)

\* what the last pass added to the height of texel t
HeightAdded(t) == After[t].r - Before[t].r

\* C11: addDrop with a positive radius adds strength * f(d) to the height of
\* each texel, d its distance from the drop centre over the normalized radius:
\* the amount depends on d only, is the whole strength at d = 0, does not grow
\* with d, has the sign of strength, and is exactly 0 where d >= 1.
C11_DropProfile ==
  (lastCall.method = "addDrop" /\ lastCall.radius > 0 /\ ~HasNaN(Before)) =>
    /\ LastPass.u.radius =
         RDiv(lastCall.radius * 4 * ONE, wPoolWidth + wPoolLength)
    /\ \E d \in {Table([t \in Texels |-> DropDistance(t)])} :
         /\ \A t \in Texels :
              /\ d[t] = 0 => HeightAdded(t) = lastCall.strength
              /\ d[t] >= ONE => HeightAdded(t) = 0
              /\ HeightAdded(t) * lastCall.strength >= 0
         /\ \A t1, t2 \in Texels :
              /\ d[t1] = d[t2] => HeightAdded(t1) = HeightAdded(t2)
              /\ d[t1] <= d[t2] => Abs(HeightAdded(t1)) >= Abs(HeightAdded(t2))

C11_Witness ==
  /\ lastCall.method = "addDrop"
  /\ lastCall.radius > 0
  /\ ~HasNaN(Before)
  /\ \E t \in Texels : DropDistance(t) = 0 /\ HeightAdded(t) # 0
  /\ \E t \in Texels :
       /\ 0 < DropDistance(t) /\ DropDistance(t) < ONE
       /\ 0 < Abs(HeightAdded(t)) /\ Abs(HeightAdded(t)) < Abs(lastCall.strength)


\* C12: on a platform that cannot render to floating-point textures,
\* window.onload throws before Water and Renderer are built and before the
\* animation loop is scheduled: no pass is ever issued and no tick runs.
C12_NoTickWithoutFloatTargets ==
  (phase # "loading" /\ ~platform.floatTargets) =>
    /\ phase = "failed"
    /\ ticks = 0
    /\ written = 0


\* C13: the water depth and the wall height that Renderer.updateDimensions
\* stores and hands to the materials are strictly positive, whatever depth
\* and wall height it was given.
C13_DegenerateDimensionsClamped ==
  lastCall.method = "Renderer.updateDimensions" =>
    /\ rDims.poolHeight > 0
    /\ rDims.wallHeight > 0
    /\ \A m \in Materials : rUniforms[m].poolHeight > 0 /\ rUniforms[m].wallHeight > 0


\* half of v, as the poolSize uniform holds the pool's width and length
HalfOf(v) == Vec2(RDiv(v.x, 2), RDiv(v.y, 2))

\* C16: the Water and every material of the Renderer describe the same pool:
\* between handlers, and at the start of every pass of the last handler, the
\* poolSize uniform of each material is half of Water.poolWidth and
\* Water.poolLength, which are main.ts's poolWidth and poolLength.
C16_PoolGeometryAgrees ==
  /\ \A m \in Materials : rUniforms[m].poolSize = HalfOf(Vec2(wPoolWidth, wPoolLength))
  /\ rDims.poolWidth = wPoolWidth /\ rDims.poolLength = wPoolLength
  /\ poolWidth = wPoolWidth /\ poolLength = wPoolLength
  /\ \A i \in 1 .. Len(passLog) :
       \A m \in Materials : passLog[i].rPool[m] = HalfOf(passLog[i].pool)

C16_Witness ==
  /\ handler.name = "animate"
  /\ handler.seconds <= ONE
  /\ Len(passLog) >= SubSteps + 4
  /\ wPoolWidth # wPoolLength
  /\ passLog[1].pool = Vec2(wPoolWidth, wPoolLength)
  /\ passLog[SubSteps + 3].rPool["causticsMaterial"] = causticTex.poolSize


\* the last handler presented a frame: Renderer.render drew the scene
FramePresented == \E i \in 1 .. Len(passLog) : passLog[i].pass = "scene"

\* the passes of a whole tick: moveSphere, the steps, the normals, the caustics
TickPasses ==
  <<"sphereMaterial">> \o [i \in 1 .. SubSteps |-> "updateMaterial"]
    \o <<"normalMaterial", "causticsMaterial">>

\* C17: the animation loop presents a frame only for a tick that ran all of
\* its passes: when animate has drawn the scene, the passes of a whole tick
\* precede the draw; a tick that ran none of them presents nothing.
C17_FrameOnlyAfterWholeTick ==
  (handler.name = "animate" /\ FramePresented) =>
    /\ Len(passLog) > Len(TickPasses)
    /\ SubSeq(Passes, 1, Len(TickPasses)) = TickPasses


\* the field coordinate at which the drop shader of the last pass has its
\* centre: center * 0.5 + 0.5
DropCentre ==
  Vec2(RDiv(LastPass.u.center.x, 2) + ONE \div 2,
       RDiv(LastPass.u.center.y, 2) + ONE \div 2)

\* the field coordinate at which the sphere shader of the last pass has the
\* centre c: coord * 2.0 - 1.0 = c.xz
SphereCentre(c) == Vec2(RDiv(c.x + ONE, 2), RDiv(c.z + ONE, 2))

\* a and b differ by at most one thousandth, the rounding of a division
Near(a, b) == Abs(a.x - b.x) <= 1 /\ Abs(a.y - b.y) <= 1

\* the world points a and b differ by at most two thousandths of the pool
NearWorld(a, b, pool) ==
  Abs(a.x - b.x) * ONE <= 2 * pool.x /\ Abs(a.y - b.y) * ONE <= 2 * pool.y

InPool(x, z, pool) == 2 * Abs(x) <= pool.x /\ 2 * Abs(z) <= pool.y

\* C18: addDrop with a world point inside the pool centres the drop at the
\* field coordinate (x / poolWidth + 0.5, z / poolLength + 0.5) of the pool
\* dimensions at the call, inside [0,1] x [0,1]; the texel at that coordinate
\* receives the whole strength; the surface shader maps the world point to
\* the same coordinate, the caustic shader maps the coordinate back to the
\* world point, and moveSphere centres the sphere by the same mapping.
C18_WorldToFieldMapping ==
  LET pool == Vec2(LastPass.poolWidth, LastPass.poolLength)
  IN  /\ (lastCall.method = "addDrop" /\ InPool(lastCall.x, lastCall.y, pool)) =>
            /\ Near(DropCentre, Vec2(RDiv(lastCall.x * ONE, pool.x) + ONE \div 2,
                                      RDiv(lastCall.y * ONE, pool.y) + ONE \div 2))
            /\ DropCentre.x \in 0 .. ONE /\ DropCentre.y \in 0 .. ONE
            /\ Near(DropCentre, surfaceCoord(lastCall.x, lastCall.y, HalfOf(pool)))
            /\ NearWorld(causticRawPos(DropCentre, HalfOf(pool)),
                         Vec2(lastCall.x, lastCall.y), pool)
            /\ (lastCall.radius > 0 /\ ~HasNaN(Before)) =>
                 \A t \in Texels :
                   (CoordMilli(Coord(t[1])) = DropCentre.x
                      /\ CoordMilli(Coord(t[2])) = DropCentre.y)
                     => HeightAdded(t) = lastCall.strength
      /\ (lastCall.method = "moveSphere"
             /\ InPool(lastCall.newCenter.x, lastCall.newCenter.z, pool)) =>
            Near(SphereCentre(LastPass.u.newCenter),
                 surfaceCoord(lastCall.newCenter.x, lastCall.newCenter.z, HalfOf(pool)))

C18_Witness ==
  /\ lastCall.method = "addDrop"
  /\ lastCall.x = 300 /\ lastCall.y = -400 /\ lastCall.radius > 0
  /\ LastPass.poolWidth = 4 * ONE
  /\ DropCentre.x = 575 /\ DropCentre.y \in 366 .. 367
  /\ After # Before


RECURSIVE SumAbs(_, _)
\* the sum of |f[t]| over the texels t of S
SumAbs(f, S) ==
  IF S = {}
  THEN 0
  ELSE LET t == CHOOSE t \in S : TRUE
       IN  Abs(f[t]) + SumAbs(f, S \ {t})

\* the velocity channel of a field
Velocity(field) == [t \in Texels |-> field[t].g]

\* the velocity of each texel of the field before the last step once the
\* step's acceleration (average - height) * 2.0 is added, before the damping
Accelerated ==
  [t \in Texels |->
     LET i == t[1]
         j == t[2]
         avg == RDiv(Before[<<Lower(i), j>>].r + Before[<<i, Lower(j)>>].r
                       + Before[<<Upper(i), j>>].r + Before[<<i, Upper(j)>>].r, 4)
     IN  Before[t].g + (avg - Before[t].r) * Stiffness]

\* a and b are equal up to the rounding of one division per texel
EqualToRounding(a, b) == 2 * Abs(a - b) <= DampingDen * Cardinality(Texels)

\* the last call is the first stepSimulation after one impulse
FirstStepAfterImpulse ==
  /\ lastCall.method = "stepSimulation"
  /\ calls = 2
  /\ Len(hist) = 2
  /\ hist[1].pass \in {"dropMaterial", "sphereMaterial"}
  /\ ~HasNaN(Before)

\* C19 as stated: after the first step on a field that received one impulse,
\* the sum of |velocity| over the texels is 0.995 times the sum before the step.
C19_VelocitySumDecays ==
  FirstStepAfterImpulse =>
    EqualToRounding(DampingDen * SumAbs(Velocity(After), Texels),
                    DampingNum * SumAbs(Velocity(Before), Texels))

\* C19 amended: after every stepSimulation the sum of |velocity| over the
\* texels is 0.995 times the sum of |v + (average - h) * 2.0| of the field
\* before the step; the factor applies to the accelerated velocity, so the sum
\* may grow in a step.
C19_DampingOfAcceleratedVelocity ==
  (lastCall.method = "stepSimulation" /\ ~HasNaN(Before)) =>
    EqualToRounding(DampingDen * SumAbs(Velocity(After), Texels),
                    DampingNum * SumAbs(Accelerated, Texels))

C19_Witness ==
  /\ FirstStepAfterImpulse
  /\ SumAbs(Velocity(Before), Texels) = 0
  /\ SumAbs(Velocity(After), Texels) > HONE


\* the patches of the last caustic pass that were rasterized and cover texel t
Covering(t) ==
  { i \in 1 .. Len(causticTarget.run) :
      /\ t \in causticTarget.run[i].cover
      /\ ~NaNVertex(causticTarget.run[i]) \/ causticTarget.nanDrawn }

RECURSIVE TexelFromClear(_, _, _)
\* the colour of texel t when the patches i, i + 1, ... of the last pass that
\* cover it are blended onto acc
TexelFromClear(t, i, acc) ==
  IF i > Len(causticTarget.run)
  THEN acc
  ELSE TexelFromClear(t, i + 1,
                      IF i \in Covering(t)
                      THEN blend(causticsFragment(causticTarget.run[i]), acc)
                      ELSE acc)

\* C14: updateCaustics clears causticTex before it rasterizes: after the call
\* every texel holds what the patches of this call leave on the clear colour,
\* a texel no patch covers holds the clear colour, and a texel one patch
\* covers holds that patch's fragment; nothing of the earlier content stays.
C14_CausticsClearedEachCall ==
  lastCall.method = "Renderer.updateCaustics" =>
    \A t \in CausticTexels :
      /\ causticTarget.color[t] = TexelFromClear(t, 1, ClearColor)
      /\ Covering(t) = {} => causticTarget.color[t] = ClearColor
      /\ \A i \in Covering(t) :
           Covering(t) = {i} =>
             causticTarget.color[t] = causticsFragment(causticTarget.run[i])

C14_Witness ==
  /\ lastCall.method = "Renderer.updateCaustics"
  /\ \E t \in CausticTexels :
       /\ t \in causticTarget.stale
       /\ Covering(t) = {}
       /\ causticTarget.color[t] = ClearColor
  /\ \E t \in CausticTexels :
       /\ Cardinality(Covering(t)) = 1
       /\ causticTarget.color[t] # ClearColor

RECURSIVE SumOfIntensities(_)
\* the sum of the intensities (r) of the fragments of the patches in S
SumOfIntensities(S) ==
  IF S = {}
  THEN 0
  ELSE LET i == CHOOSE i \in S : TRUE
       IN  FAdd(causticsFragment(causticTarget.run[i]).r, SumOfIntensities(S \ {i}))

\* C15: a texel that several patches of one pass cover holds the sum of the
\* patches' intensities (which does not depend on the order of the patches).
C15_OverlappingPatchesSum ==
  lastCall.method = "Renderer.updateCaustics" =>
    \A t \in CausticTexels :
      Cardinality(Covering(t)) >= 2 =>
        causticTarget.color[t].r = SumOfIntensities(Covering(t))

\* C20: after updateCaustics the intensity of every texel of causticTex is a
\* number and is >= 0, whatever normals the patches read.
C20_CausticIntensityNonNegative ==
  lastCall.method = "Renderer.updateCaustics" =>
    \A t \in CausticTexels :
      ~IsNaN(causticTarget.color[t].r) /\ causticTarget.color[t].r >= 0


\* the x and z components, in thousandths, of the unit vector along
\* cross(dy, dx) = (-hx * delta, delta * delta, -hz * delta), hx and hz the
\* height differences to the next texel in x and in z, delta the texel size
UnitNormalXZ(hx, hz) ==
  LET delta == HONE \div GridN
      len == Sqrt(hx * hx + delta * delta + hz * hz)
  IN  Vec2(RDiv(-hx * ONE, len), RDiv(-hz * ONE, len))

\* C21: updateNormals leaves height and velocity of every texel as they were
\* and writes into the third and fourth channel the x and z components of the
\* normalized cross product of the two height-difference tangents; where the
\* height is constant both are 0.
C21_NormalsWriteOnlyNormalChannels ==
  lastCall.method = "updateNormals" =>
    /\ \A t \in Texels : After[t].r = Before[t].r /\ After[t].g = Before[t].g
    /\ ~HasNaN(Before) =>
         /\ \A t \in Texels :
              LET n == UnitNormalXZ(Before[<<Upper(t[1]), t[2]>>].r - Before[t].r,
                                    Before[<<t[1], Upper(t[2])>>].r - Before[t].r)
              IN  After[t].b = n.x /\ After[t].a = n.y
         /\ (\A t, s \in Texels : Before[t].r = Before[s].r) =>
              \A t \in Texels : After[t].b = 0 /\ After[t].a = 0

C21_Witness ==
  /\ lastCall.method = "updateNormals"
  /\ ~HasNaN(Before)
  /\ \E t \in Texels : Before[t].g # 0 /\ After[t].g = Before[t].g
  /\ \E t \in Texels : After[t].b # 0 /\ After[t].b # Before[t].b
  /\ \E t \in Texels : After[t].a # 0


\* the arguments of the moveSphere call made last
LastMove == sphereHist.moves[Len(sphereHist.moves)]

\* C22: every moveSphere call of a tick gets as oldCenter the newCenter of the
\* moveSphere call before it, the first one the initial centre (0, 0, 0);
\* between two calls oldCenter keeps that value whatever happens to center
C22_OldCenterIsPreviousNewCenter ==
  /\ sphereHist.moves = <<>> => oldCenter = Vec3(0, 0, 0)
  /\ Len(sphereHist.moves) = 1 => sphereHist.moves[1].old = Vec3(0, 0, 0)
  /\ Len(sphereHist.moves) = 2 =>
       sphereHist.moves[2].old = sphereHist.moves[1].new
  /\ sphereHist.moves # <<>> => oldCenter = LastMove.new

\* a second tick moved the sphere on from where the first tick had left it
C22_Witness ==
  /\ Len(sphereHist.moves) = 2
  /\ sphereHist.moves[2].old # Vec3(0, 0, 0)
  /\ sphereHist.moves[2].new # sphereHist.moves[2].old
  /\ sphereHist.moves[2].old = sphereHist.moves[1].new


\* the heights of a field
Heights(field) == [t \in Texels |-> field[t].r]

\* a tick has run its passes: updateCaustics has sampled a height buffer
TickHasRun == causticTex.water # 0

\* C23: whenever a frame is drawn after a tick has run, the last pass over the
\* height field was updateNormals (no addDrop, moveSphere or stepSimulation
\* pass ran after it), and the heights and the sphere centre are the ones of
\* the last updateCaustics pass (the one of the tick that called moveSphere
\* last)
C23_FrameSeesFreshNormalsAndCaustics ==
  FramePresented /\ TickHasRun =>
    /\ LastPass.pass = "normalMaterial"
    /\ Heights(buf[textureA]) = Heights(causticTex.field)
    /\ center = LastMove.new


\* the centre c and the radius as moveSphere hands them to the sphere shader
\* with the pool geometry the Water holds now
SphereUniformsNow(c) ==
  [center |-> [c EXCEPT !.x = RDiv(@ * 2 * ONE, wPoolWidth),
                        !.z = RDiv(@ * 2 * ONE, wPoolLength)],
   radius |-> RDiv(SphereRadius * 4 * ONE, wPoolWidth + wPoolLength)]

\* volumeInSphere at texel t of a sphere centred at c, current geometry
VolumeNow(t, c) ==
  volumeInSphere(Coord(t[1]), Coord(t[2]), SphereUniformsNow(c).center,
                 SphereUniformsNow(c).radius)

\* C24: what the moveSphere calls so far have added to the height of a texel
\* is volumeInSphere of the initial centre minus volumeInSphere of the centre
\* of the last call, both taken with the pool geometry of the moment
C24_SphereContributionsTelescope ==
  sphereHist.moves # <<>> =>
    \A t \in Texels :
      sphereHist.sum[t] = VolumeNow(t, Vec3(0, 0, 0)) - VolumeNow(t, LastMove.new)


\* the centre is where a sphere of the pool can be
CentreInPool ==
  /\ Abs(center.x) <= RDiv(poolWidth, 2) - SphereRadius
  /\ Abs(center.z) <= RDiv(poolLength, 2) - SphereRadius
  /\ center.y >= SphereRadius - poolDepth

\* C25: whenever a frame is drawn the sphere lies within the walls and above
\* the floor of the pool
C25_DrawnSphereInsidePool == FramePresented => CentreInPool


\* the handler that ran last was a drag handler and it added a drop
DragAddedDrop ==
  /\ handler.name \in {"startDrag", "duringDrag"}
  /\ \E i \in 1 .. Len(passLog) : passLog[i].pass = "dropMaterial"

\* C26: a drop added by a drag has its centre strictly inside the pool:
\* |x| < poolWidth / 2 and |z| < poolLength / 2, which in the centre uniform
\* addDrop computes (x and z over the half dimensions) is strictly between
\* -1 and 1
C26_DragDropsInsidePool ==
  DragAddedDrop =>
    /\ Abs(LastPass.u.center.x) < ONE
    /\ Abs(LastPass.u.center.y) < ONE


\* C27: a tick whose update got seconds > 1 leaves both height buffers and
\* their roles, the caustic field, the sphere centre, oldCenter, the velocity
\* and the duck's position and heading as they were
C27_SkippedUpdateChangesNothing ==
  [][ticks' # ticks /\ handler'.seconds > ONE =>
        UNCHANGED <<buf, textureA, textureB, causticTex, causticTarget, center,
                    oldCenter, velocity, duckPosition, duckHeading>>]_vars

\* a skipped tick that found the sphere moving and the water disturbed
C27_Witness ==
  /\ handler.name = "animate"
  /\ handler.seconds > ONE
  /\ TickHasRun
  /\ velocity # Vec3(0, 0, 0)
  /\ \E t \in Texels : buf[textureA][t].g # 0


\* a step taken while a sphere drag is in progress
DuringSphereDrag == mode = MODE_MOVE_SPHERE /\ mode' = MODE_MOVE_SPHERE

\* during a sphere drag the centre changes in duringDrag only
CentreMovesInDragHandlerOnly ==
  DuringSphereDrag /\ center' # center =>
    events' # events /\ handler'.name = "duringDrag"

\* C28 as stated: while a sphere drag is in progress every tick sets the
\* velocity to zero and leaves the centre unchanged, and the centre changes
\* only in the drag handler
C28_EveryDragTickStopsSphere ==
  [][/\ DuringSphereDrag /\ ticks' # ticks =>
          velocity' = Vec3(0, 0, 0) /\ center' = center
     /\ CentreMovesInDragHandlerOnly]_vars

\* C28: while a sphere drag is in progress every tick whose update is not
\* skipped (seconds <= 1) sets the velocity to zero and leaves the centre
\* unchanged, a skipped tick leaves both unchanged, and the centre changes
\* only in the drag handler
C28_DragTickStopsSphereUnlessSkipped ==
  [][/\ DuringSphereDrag /\ ticks' # ticks =>
          /\ center' = center
          /\ velocity' = IF handler'.seconds > ONE THEN velocity
                         ELSE Vec3(0, 0, 0)
     /\ CentreMovesInDragHandlerOnly]_vars

\* a tick during a sphere drag that began after the physics had set the
\* sphere in motion: the tick passed the same centre twice to moveSphere and
\* left the velocity at zero
C28_Witness ==
  /\ mode = MODE_MOVE_SPHERE
  /\ handler.name = "animate"
  /\ handler.seconds <= ONE
  /\ Len(sphereHist.moves) = 2
  /\ sphereHist.moves[1].new # sphereHist.moves[1].old
  /\ LastMove.old = LastMove.new
  /\ center = LastMove.new
  /\ velocity = Vec3(0, 0, 0)


\* C29 as stated: a sphere pass with oldCenter equal to newCenter leaves all
\* four channels of the texel unchanged
C29_MoveSphereInPlaceChangesNothing == probe.done => probe.after = probe.before

\* C29: a sphere pass with oldCenter equal to newCenter leaves the velocity
\* and the normal channels of the texel unchanged; it leaves the height
\* unchanged where volumeInSphere is 0 at the texel, and elsewhere moves it by
\* no more than the distance between neighbouring floats at height + volume
C29_MoveSphereInPlaceWithinRounding ==
  probe.done =>
    /\ probe.after.g = probe.before.g
    /\ probe.after.b = probe.before.b
    /\ probe.after.a = probe.before.a
    /\ probe.vol = 0 => probe.after.r = probe.before.r
    /\ Abs(probe.after.r - probe.before.r) <= Ulp(probe.before.r + probe.vol)

\* a sphere below the water plane whose pass moved the height of a texel it
\* displaces, and kept its velocity
C29_Witness ==
  /\ probe.done
  /\ probe.center.y < 0
  /\ probe.vol > 0
  /\ probe.after.r # probe.before.r
  /\ probe.before.g # 0
  /\ probe.after.g = probe.before.g


\* C30: when a handler has returned the active render target is the screen,
\* every pass of the handler began with the screen as the active target (the
\* renderTo, updateCaustics or renderDuckRefraction call before it had put it
\* back), and the main scene was drawn to the screen
C30_RenderTargetIsScreenBetweenPasses ==
  /\ renderTarget = 0
  /\ screen.target = 0
  /\ \A i \in 1 .. Len(passLog) :
       /\ passLog[i].bound = 0
       /\ passLog[i].pass = "scene" => passLog[i].dst = 0

\* a frame with the duck loaded: the tick's height-field passes and caustic
\* pass, then the duck refraction pass, then the main scene
C30_Witness ==
  /\ duckLoaded
  /\ Len(passLog) = 9
  /\ passLog[1].pass = "sphereMaterial" /\ passLog[1].dst \in {1, 2}
  /\ passLog[7].pass = "causticsMaterial" /\ passLog[7].dst = CausticTarget
  /\ passLog[8].pass = "duckRefraction" /\ passLog[8].dst = DuckRefractionTarget
  /\ passLog[9].pass = "scene" /\ passLog[9].dst = 0

=============================================================================
